---------------------------- MODULE Spec2Model ----------------------------
(***************************************************************************)
(* Model of the primoPoker table engine (package game: Player, Game) and   *)
(* of the hand evaluator (package poker: Hand).                            *)
(*                                                                         *)
(* The Game is one record, `game`, whose fields are the fields of the Go   *)
(* struct.  Every exported method of Game runs under g.mu, so each method  *)
(* is one atomic action.  Go slices are 0-indexed: the position fields     *)
(* (DealerPos, CurrentPlayer, ...) keep their Go values and a sequence is  *)
(* read at position + 1.                                                   *)
(*                                                                         *)
(* Cards in the game are dealt from a deck shuffled by a random source, so *)
(* the value of each player's best hand at showdown is a nondeterministic  *)
(* input `hv` of the action that reaches the showdown; the game keeps the  *)
(* number of hole cards, community cards and undealt cards.                *)
(*                                                                         *)
(* The Manager (its map of games, its map of the games of each player and  *)
(* its mutex) is modelled with the goroutines calling it: SpecLock runs    *)
(* the calls statement by statement at each Lock and RLock of the          *)
(* manager's and the game's mutex.                                         *)
(***************************************************************************)
EXTENDS Integers, Sequences, FiniteSets, TLC

VARIABLES
    game,      \* the Game struct (with the pending time.AfterFunc callbacks)
    lastOp,    \* history: the last call made on the game and what it returned
    boughtIn,  \* history: sum of the buy-ins of all players ever added
    acted,     \* history: players with an accepted action on the current street
    c1,        \* hand evaluator: first 5-card input
    c2,        \* hand evaluator: second 5-card input
    h1,        \* hand evaluator: NewHand(c1), or NoHand
    h2,        \* hand evaluator: NewHand(c2), or NoHand
    cmp,       \* hand evaluator: CompareHands(h1, h2), or NoCmp
    games,     \* Manager.games: the ids of the games the manager holds
    playerGames, \* Manager.players: for each player id the list of game ids
    mmu,       \* Manager.mu: the writer and the readers holding it
    gmu,       \* Game.mu: the writer and the readers holding it
    pc,        \* for each goroutine, the statement it is at
    arg,       \* for each goroutine, the arguments of the call it runs
    started,   \* history: number of calls made on the manager
    deckCards, \* Deck.Cards: the cards left in the deck, the top card first
    dealt,     \* history: the cards dealt since NewDeck or the last Reset
    dealOut,   \* history: the last call on the deck and what it returned
    viewGame,  \* a Game with its cards, on which GetGameState is called
    viewTwin,  \* a Game equal to viewGame but for cards the viewer does not hold
    viewer,    \* the playerID GetGameState is called with
    snapshot,  \* GetGameState(viewer) of viewGame, or NoSnapshot
    snapshotTwin, \* GetGameState(viewer) of viewTwin, or NoSnapshot
    tables,    \* Manager.games of a manager with several games: the Game of each id
    configured, \* history: the GameConfig CreateGame built for each game
    lastCall,  \* history: the last call on that manager and what it returned
    seven,     \* the 7 cards GetBestHand is called with
    bestHand,  \* GetBestHand(seven), or NoHand
    bettor,    \* a Player on which Bet is called
    betOut,    \* history: the last call on bettor and what it returned
    dealGame,  \* a Game with its cards, in which hands are dealt
    dealFailed \* history: number of Deal calls of the hand that returned an error

gameVars == <<game, lastOp, boughtIn, acted>>
handVars == <<c1, c2, h1, h2, cmp>>
histVars == <<lastOp, boughtIn, acted>>
managerVars == <<games, playerGames, mmu, gmu, pc, arg, started>>
deckVars == <<deckCards, dealt, dealOut>>
\* the variables of the parts checked on their own
viewVars == <<viewGame, viewTwin, viewer, snapshot, snapshotTwin>>
lobbyVars == <<tables, configured, lastCall>>
bestVars == <<seven, bestHand>>
playerVars == <<bettor, betOut>>
dealVars == <<dealGame, dealFailed>>
partVars == <<bestVars, playerVars, dealVars>>
unitVars == <<deckVars, viewVars, lobbyVars, partVars>>
vars == <<game, lastOp, boughtIn, acted, c1, c2, h1, h2, cmp,
          games, playerGames, mmu, gmu, pc, arg, started,
          deckCards, dealt, dealOut,
          viewGame, viewTwin, viewer, snapshot, snapshotTwin,
          tables, configured, lastCall,
          seven, bestHand, bettor, betOut, dealGame, dealFailed>>

---------------------------------------------------------------------------
(* Bounds of the model *)

PlayerIDs == {"p1", "p2", "p3"}
\* ids a caller may present; "" is the id getCurrentPlayerID returns for "nobody"
NoPlayer == ""
\* the buy-in each id joins with
BuyIns == [id \in PlayerIDs |-> IF id = "p1" THEN 5 ELSE 2]
\* ids join in this order (the ids are interchangeable up to their buy-in)
JoinOrder == <<"p1", "p2", "p3">>
MaxRaise == 3
MaxHands == 2
MaxTimers == 1
MaxActions == 6
MaxStrength == 2
MaxOps == 2

---------------------------------------------------------------------------
(* Enumerations *)

WaitingForPlayers == "WaitingForPlayers"
PreFlop == "PreFlop"
Flop == "Flop"
Turn == "Turn"
River == "River"
Showdown == "Showdown"
GameOver == "GameOver"

Fold == "Fold"
Check == "Check"
Call == "Call"
Raise == "Raise"
AllIn == "AllIn"
PlayerActions == {Fold, Check, Call, Raise, AllIn}

NoAction == [Action |-> "nil", Amount |-> 0]

\* error values returned by the Game methods ("" is nil)
ErrNone == ""
ErrPhase == "cannot act during this phase"
ErrNotYourTurn == "not your turn"
ErrNotInGame == "player not in game"
ErrCannotAct == "player cannot act"
ErrCannotCheck == "cannot check, must call or raise"
ErrMinRaise == "minimum raise"
ErrRaiseChips == "insufficient chips for raise"
ErrInsufficientChips == "insufficient chips"
ErrGameFull == "game is full"
ErrAlreadyInGame == "player already in game"
ErrPanic == "panic: runtime error: integer divide by zero"

---------------------------------------------------------------------------
(* Player *)

NewPlayer(buyIn) ==
    [ChipCount |-> buyIn, HoleCards |-> 0, CurrentBet |-> 0, TotalBet |-> 0,
     HasFolded |-> FALSE, IsAllIn |-> FALSE, IsActive |-> TRUE,
     LastAction |-> NoAction, Connected |-> TRUE]

CanAct(p) ==
    p.IsActive /\ ~p.HasFolded /\ ~p.IsAllIn /\ p.Connected

\* the error Player.Bet returns
BetError(p, amount) ==
    IF amount > p.ChipCount THEN ErrInsufficientChips ELSE ErrNone

\* seeded fault: Bet moving the chips before it tests the amount
BetThenTest(p, amount) ==
    [p EXCEPT !.ChipCount = IF amount > p.ChipCount THEN @ ELSE @ - amount,
              !.CurrentBet = p.CurrentBet + amount,
              !.TotalBet = p.TotalBet + amount,
              !.IsAllIn = IF p.ChipCount - amount = 0 THEN TRUE ELSE p.IsAllIn]

\* Player.Bet: the player after the call (unchanged when it returns an error)
Bet(p, amount) ==
    IF amount > p.ChipCount THEN p
    ELSE [p EXCEPT !.ChipCount = p.ChipCount - amount,
                   !.CurrentBet = p.CurrentBet + amount,
                   !.TotalBet = p.TotalBet + amount,
                   !.IsAllIn = IF p.ChipCount - amount = 0 THEN TRUE ELSE p.IsAllIn]

PlayerFold(p) ==
    [p EXCEPT !.HasFolded = TRUE]

ResetForNewHand(p) ==
    [p EXCEPT !.HoleCards = 0, !.CurrentBet = 0, !.TotalBet = 0,
              !.HasFolded = FALSE, !.IsAllIn = FALSE, !.LastAction = NoAction,
              !.IsActive = (p.ChipCount > 0 /\ p.Connected)]

min(a, b) ==
    IF a < b THEN a ELSE b


---------------------------------------------------------------------------
(* Game: construction and queries *)

\* the configurations a table is created with (GameConfig)
Configs ==
    {[MaxPlayers |-> 2, MinPlayers |-> 2, SmallBlind |-> 1, BigBlind |-> 2]}

DeckSize == 52

\* the empty players map
NoPlayers ==
    [id \in {} |-> NewPlayer(0)]

NewGame(config) ==
    [MaxPlayers |-> config.MaxPlayers, MinPlayers |-> config.MinPlayers,
     SmallBlind |-> config.SmallBlind, BigBlind |-> config.BigBlind,
     Players |-> NoPlayers, PlayerOrder |-> <<>>, Phase |-> WaitingForPlayers,
     CommunityCards |-> 0, Pot |-> 0, SidePots |-> <<>>, Deck |-> DeckSize,
     DealerPos |-> 0, SmallBlindPos |-> 0, BigBlindPos |-> 0,
     CurrentPlayer |-> 0, LastRaise |-> 0, MinRaise |-> config.BigBlind,
     Actions |-> 0, HandNumber |-> 0,
     timers |-> <<>>, panicked |-> FALSE]

\* g.PlayerOrder[i] for a Go index i
At(order, i) ==
    order[i + 1]

getCurrentPlayerID(g) ==
    IF Len(g.PlayerOrder) = 0 \/ g.CurrentPlayer >= Len(g.PlayerOrder)
    THEN NoPlayer
    ELSE At(g.PlayerOrder, g.CurrentPlayer)

\* ids of the players who have not folded, in seat order
getActivePlayers(g) ==
    SelectSeq(g.PlayerOrder, LAMBDA id : ~g.Players[id].HasFolded)

\* seeded fault: a betting round complete as soon as the bets are level
isBettingRoundCompleteBetsLevel(g) ==
    LET activePlayers == getActivePlayers(g) IN
    IF Len(activePlayers) <= 1 THEN TRUE
    ELSE \A i \in 1..Len(activePlayers) :
            LET player == g.Players[activePlayers[i]] IN
            ~(CanAct(player) /\ player.CurrentBet < g.LastRaise)

isBettingRoundComplete(g) ==
    LET activePlayers == getActivePlayers(g) IN
    IF Len(activePlayers) <= 1 THEN TRUE
    ELSE \A i \in 1..Len(activePlayers) :
            LET player == g.Players[activePlayers[i]] IN
            ~(CanAct(player) /\
              (player.LastAction = NoAction \/ player.CurrentBet < g.LastRaise))

\* seeded fault: moveToNextActivePlayer leaving the turn at the seat it starts
\* from, whoever sits there
moveToNextActivePlayerNoSkip(g) ==
    g

\* the loop of moveToNextActivePlayer: the first seat from CurrentPlayer on, in
\* cyclic order, whose player can act; CurrentPlayer itself after a full wrap
moveToNextActivePlayer(g) ==
    LET n == Len(g.PlayerOrder)
        startPos == g.CurrentPlayer
        offs == {k \in 0..(n - 1) :
                    CanAct(g.Players[At(g.PlayerOrder, (startPos + k) % n)])}
    IN  IF offs = {} THEN g
        ELSE [g EXCEPT !.CurrentPlayer =
                 (startPos + (CHOOSE k \in offs : \A j \in offs : k <= j)) % n]

moveToNextPlayer(g) ==
    moveToNextActivePlayer(
        [g EXCEPT !.CurrentPlayer = (g.CurrentPlayer + 1) % Len(g.PlayerOrder)])

---------------------------------------------------------------------------
(* Game: starting a hand *)

\* the loop "ensure dealer is an active player": at most len(PlayerOrder) steps
RECURSIVE dealerLoop(_, _, _)
dealerLoop(g, pos, i) ==
    IF i >= Len(g.PlayerOrder) THEN pos
    ELSE IF g.Players[At(g.PlayerOrder, pos)].IsActive THEN pos
    ELSE dealerLoop(g, (pos + 1) % Len(g.PlayerOrder), i + 1)

moveDealerButton(g) ==
    LET n == Len(g.PlayerOrder) IN
    IF n < 2 THEN g
    ELSE LET d == dealerLoop(g, (g.DealerPos + 1) % n, 0) IN
         IF n = 2
         THEN [g EXCEPT !.DealerPos = d, !.SmallBlindPos = d,
                        !.BigBlindPos = (d + 1) % n]
         ELSE [g EXCEPT !.DealerPos = d, !.SmallBlindPos = (d + 1) % n,
                        !.BigBlindPos = (d + 2) % n]

\* Deck.Deal n times with the error ignored: an empty deck stays empty
Deal(deck, n) ==
    IF deck >= n THEN deck - n ELSE 0

dealHoleCards(g) ==
    LET active == {id \in DOMAIN g.Players : g.Players[id].IsActive} IN
    [g EXCEPT !.Players = [id \in DOMAIN g.Players |->
                              IF id \in active
                              THEN [g.Players[id] EXCEPT !.HoleCards = @ + 2]
                              ELSE g.Players[id]],
              !.Deck = Deal(g.Deck, 2 * Cardinality(active))]

postBlinds(g) ==
    LET sbID == At(g.PlayerOrder, g.SmallBlindPos)
        sbAmount == min(g.SmallBlind, g.Players[sbID].ChipCount)
        g1 == [g EXCEPT !.Players[sbID] = Bet(@, sbAmount), !.Pot = @ + sbAmount]
        bbID == At(g1.PlayerOrder, g1.BigBlindPos)
        bbAmount == min(g1.BigBlind, g1.Players[bbID].ChipCount)
    IN  [g1 EXCEPT !.Players[bbID] = Bet(@, bbAmount), !.Pot = @ + bbAmount]

startNewHand(g) ==
    LET g1 == [g EXCEPT !.HandNumber = @ + 1, !.Phase = PreFlop, !.Pot = 0,
                        !.SidePots = <<>>, !.CommunityCards = 0, !.Actions = 0,
                        !.LastRaise = g.BigBlind, !.MinRaise = g.BigBlind,
                        !.Players = [id \in DOMAIN g.Players |->
                                        ResetForNewHand(g.Players[id])]]
        g2 == moveDealerButton(g1)
        g3 == dealHoleCards([g2 EXCEPT !.Deck = DeckSize])
        g4 == postBlinds(g3)
    IN  moveToNextActivePlayer(
            [g4 EXCEPT !.CurrentPlayer = (g4.BigBlindPos + 1) % Len(g4.PlayerOrder)])

---------------------------------------------------------------------------
(* Game: ending a hand *)

calculateSidePots(g) ==
    [g EXCEPT !.SidePots =
        <<[Amount |-> g.Pot,
           EligiblePlayers |->
               SelectSeq(g.PlayerOrder, LAMBDA id : ~g.Players[id].HasFolded)]>>]

\* poker.CompareHands on the scalar values of two hands
CompareHands(a, b) ==
    IF a.Value > b.Value THEN 1
    ELSE IF a.Value < b.Value THEN -1
    ELSE 0

\* the loop of determineWinners; best = 0 stands for bestHand == nil and hv[id]
\* is the value of poker.GetBestHand for id's seven cards
RECURSIVE winnersLoop(_, _, _, _, _, _)
winnersLoop(g, players, hv, i, best, winners) ==
    IF i > Len(players) THEN winners
    ELSE LET id == players[i] IN
         IF g.Players[id].HoleCards # 2 \/ g.CommunityCards # 5
         THEN winnersLoop(g, players, hv, i + 1, best, winners)
         ELSE IF best = 0
         THEN winnersLoop(g, players, hv, i + 1, hv[id], <<id>>)
         ELSE LET comparison == CompareHands([Value |-> hv[id]], [Value |-> best]) IN
              IF comparison > 0
              THEN winnersLoop(g, players, hv, i + 1, hv[id], <<id>>)
              ELSE IF comparison = 0
              THEN winnersLoop(g, players, hv, i + 1, best, Append(winners, id))
              ELSE winnersLoop(g, players, hv, i + 1, best, winners)

determineWinners(g, players, hv) ==
    IF Len(players) = 1 THEN players
    ELSE winnersLoop(g, players, hv, 1, 0, <<>>)

\* seeded fault: the side pot split among the winners without the odd chips
awardSidePotNoRemainder(ps, winners, amount) ==
    [id \in DOMAIN ps |->
        IF \E i \in 1..Len(winners) : winners[i] = id
        THEN [ps[id] EXCEPT !.ChipCount = @ + (amount \div Len(winners))]
        ELSE ps[id]]

\* one side pot split among the winners: share plus one chip for the first
\* (Amount mod number of winners) winners
awardSidePot(ps, winners, amount) ==
    LET n == Len(winners)
        potShare == amount \div n
        remainder == amount % n
    IN  [id \in DOMAIN ps |->
            LET idx == {i \in 1..n : winners[i] = id} IN
            IF idx = {} THEN ps[id]
            ELSE LET i == CHOOSE j \in idx : TRUE IN
                 [ps[id] EXCEPT !.ChipCount =
                     @ + potShare + (IF (i - 1) < remainder THEN 1 ELSE 0)]]

RECURSIVE sidePotLoop(_, _, _, _)
sidePotLoop(ps, winners, sidePots, k) ==
    IF k > Len(sidePots) THEN ps
    ELSE sidePotLoop(awardSidePot(ps, winners, sidePots[k].Amount),
                     winners, sidePots, k + 1)

\* a division by len(winners) = 0 is a Go run-time panic: the call unwinds and
\* leaves the game as it was at that point (panicked marks the unwinding)
distributePots(g, hv) ==
    LET activePlayers == getActivePlayers(g) IN
    IF Len(activePlayers) = 0 THEN g
    ELSE IF Len(activePlayers) = 1
    THEN [g EXCEPT !.Players[activePlayers[1]].ChipCount = @ + g.Pot, !.Pot = 0]
    ELSE LET winners == determineWinners(g, activePlayers, hv) IN
         IF Len(winners) = 0 /\ Len(g.SidePots) > 0
         THEN [g EXCEPT !.panicked = TRUE]
         ELSE [g EXCEPT !.Players = sidePotLoop(g.Players, winners, g.SidePots, 1),
                        !.Pot = 0]

RemoveAt(order, i) ==
    SubSeq(order, 1, i) \o SubSeq(order, i + 2, Len(order))

\* the loop of removeEliminatedPlayers, from Go index i down to 0
RECURSIVE removeLoop(_, _)
removeLoop(g, i) ==
    IF i < 0 THEN g
    ELSE LET playerID == At(g.PlayerOrder, i)
             player == g.Players[playerID]
         IN  IF player.ChipCount <= 0 /\ ~player.Connected
             THEN removeLoop(
                    [g EXCEPT
                       !.Players = [id \in DOMAIN g.Players \ {playerID} |-> g.Players[id]],
                       !.PlayerOrder = RemoveAt(g.PlayerOrder, i),
                       !.DealerPos = IF @ > i THEN @ - 1 ELSE @,
                       !.SmallBlindPos = IF @ > i THEN @ - 1 ELSE @,
                       !.BigBlindPos = IF @ > i THEN @ - 1 ELSE @,
                       !.CurrentPlayer = IF @ > i THEN @ - 1 ELSE @],
                    i - 1)
             ELSE removeLoop(g, i - 1)

removeEliminatedPlayers(g) ==
    removeLoop(g, Len(g.PlayerOrder) - 1)

\* endHand; timers holds the callbacks scheduled with time.AfterFunc and not
\* yet run, each as the number of the hand that scheduled it
endHand(g, hv) ==
    LET g1 == distributePots(calculateSidePots([g EXCEPT !.Phase = Showdown]), hv) IN
    IF g1.panicked THEN g1
    ELSE LET g2 == removeEliminatedPlayers(g1) IN
         IF Len(getActivePlayers(g2)) < g2.MinPlayers
         THEN [g2 EXCEPT !.Phase = GameOver]
         ELSE [g2 EXCEPT !.timers = Append(@, g2.HandNumber)]


---------------------------------------------------------------------------
(* Game: betting *)

dealFlop(g) ==
    [g EXCEPT !.Deck = Deal(@, 4), !.CommunityCards = @ + 3]

dealTurn(g) ==
    [g EXCEPT !.Deck = Deal(@, 2), !.CommunityCards = @ + 1]

dealRiver(g) ==
    [g EXCEPT !.Deck = Deal(@, 2), !.CommunityCards = @ + 1]

\* seeded fault: advancePhase resetting the bets of the hand with those of
\* the street
advancePhaseResetsTotalBet(g, hv) ==
    LET g1 == [g EXCEPT !.Players = [id \in DOMAIN g.Players |->
                                        [g.Players[id] EXCEPT !.CurrentBet = 0,
                                                              !.TotalBet = 0]],
                        !.LastRaise = 0]
    IN  IF g1.Phase = River
        THEN endHand([g1 EXCEPT !.Phase = Showdown], hv)
        ELSE LET g2 == CASE g1.Phase = PreFlop -> [dealFlop(g1) EXCEPT !.Phase = Flop]
                         [] g1.Phase = Flop -> [dealTurn(g1) EXCEPT !.Phase = Turn]
                         [] g1.Phase = Turn -> [dealRiver(g1) EXCEPT !.Phase = River]
                         [] OTHER -> g1
             IN  moveToNextActivePlayer(
                     [g2 EXCEPT !.CurrentPlayer = (g2.DealerPos + 1) % Len(g2.PlayerOrder)])

advancePhase(g, hv) ==
    LET g1 == [g EXCEPT !.Players = [id \in DOMAIN g.Players |->
                                        [g.Players[id] EXCEPT !.CurrentBet = 0]],
                        !.LastRaise = 0]
    IN  IF g1.Phase = River
        THEN endHand([g1 EXCEPT !.Phase = Showdown], hv)
        ELSE LET g2 == CASE g1.Phase = PreFlop -> [dealFlop(g1) EXCEPT !.Phase = Flop]
                         [] g1.Phase = Flop -> [dealTurn(g1) EXCEPT !.Phase = Turn]
                         [] g1.Phase = Turn -> [dealRiver(g1) EXCEPT !.Phase = River]
                         [] OTHER -> g1
             IN  moveToNextActivePlayer(
                     [g2 EXCEPT !.CurrentPlayer = (g2.DealerPos + 1) % Len(g2.PlayerOrder)])

\* seeded fault: advanceGame without the end of the hand on a fold-out
advanceGameNoFoldOut(g, hv) ==
    IF isBettingRoundComplete(g) THEN advancePhase(g, hv)
    ELSE moveToNextPlayer(g)

advanceGame(g, hv) ==
    IF Len(getActivePlayers(g)) <= 1 THEN endHand(g, hv)
    ELSE IF isBettingRoundComplete(g) THEN advancePhase(g, hv)
    ELSE moveToNextPlayer(g)

\* seeded fault: the switch of processAction with a short call recorded as a call
applyActionCallAsCall(g, playerID, action, amount) ==
    LET player == g.Players[playerID] IN
    CASE action = Fold ->
           [err |-> ErrNone, action |-> action,
            g |-> [g EXCEPT !.Players[playerID] = PlayerFold(@)]]
      [] action = Check ->
           IF player.CurrentBet < g.LastRaise
           THEN [err |-> ErrCannotCheck, action |-> action, g |-> g]
           ELSE [err |-> ErrNone, action |-> action, g |-> g]
      [] action = Call ->
           LET owed == g.LastRaise - player.CurrentBet
               short == owed > player.ChipCount
               callAmount == IF short THEN player.ChipCount ELSE owed
           IN  [err |-> ErrNone, action |-> action,
                g |-> [g EXCEPT !.Players[playerID] = Bet(@, callAmount),
                                !.Pot = @ + callAmount]]
      [] action = Raise ->
           LET totalBet == g.LastRaise + amount
               betAmount == totalBet - player.CurrentBet
           IN  IF amount < g.MinRaise
               THEN [err |-> ErrMinRaise, action |-> action, g |-> g]
               ELSE IF betAmount > player.ChipCount
               THEN [err |-> ErrRaiseChips, action |-> action, g |-> g]
               ELSE [err |-> ErrNone, action |-> action,
                     g |-> [g EXCEPT !.Players[playerID] = Bet(@, betAmount),
                                     !.Pot = @ + betAmount,
                                     !.LastRaise = totalBet,
                                     !.MinRaise = amount]]
      [] action = AllIn ->
           LET allInAmount == player.ChipCount
               after == Bet(player, allInAmount)
           IN  [err |-> ErrNone, action |-> action,
                g |-> [g EXCEPT !.Players[playerID] = after,
                                !.Pot = @ + allInAmount,
                                !.LastRaise = IF after.CurrentBet > @
                                              THEN after.CurrentBet ELSE @]]

\* seeded fault: the switch of processAction with a check always allowed
applyActionAnyCheck(g, playerID, action, amount) ==
    LET player == g.Players[playerID] IN
    CASE action = Fold ->
           [err |-> ErrNone, action |-> action,
            g |-> [g EXCEPT !.Players[playerID] = PlayerFold(@)]]
      [] action = Check ->
           IF FALSE
           THEN [err |-> ErrCannotCheck, action |-> action, g |-> g]
           ELSE [err |-> ErrNone, action |-> action, g |-> g]
      [] action = Call ->
           LET owed == g.LastRaise - player.CurrentBet
               short == owed > player.ChipCount
               callAmount == IF short THEN player.ChipCount ELSE owed
           IN  [err |-> ErrNone, action |-> IF short THEN AllIn ELSE action,
                g |-> [g EXCEPT !.Players[playerID] = Bet(@, callAmount),
                                !.Pot = @ + callAmount]]
      [] action = Raise ->
           LET totalBet == g.LastRaise + amount
               betAmount == totalBet - player.CurrentBet
           IN  IF amount < g.MinRaise
               THEN [err |-> ErrMinRaise, action |-> action, g |-> g]
               ELSE IF betAmount > player.ChipCount
               THEN [err |-> ErrRaiseChips, action |-> action, g |-> g]
               ELSE [err |-> ErrNone, action |-> action,
                     g |-> [g EXCEPT !.Players[playerID] = Bet(@, betAmount),
                                     !.Pot = @ + betAmount,
                                     !.LastRaise = totalBet,
                                     !.MinRaise = amount]]
      [] action = AllIn ->
           LET allInAmount == player.ChipCount
               after == Bet(player, allInAmount)
           IN  [err |-> ErrNone, action |-> action,
                g |-> [g EXCEPT !.Players[playerID] = after,
                                !.Pot = @ + allInAmount,
                                !.LastRaise = IF after.CurrentBet > @
                                              THEN after.CurrentBet ELSE @]]

\* seeded fault: the switch of processAction with a raise of any size allowed
applyActionAnyRaise(g, playerID, action, amount) ==
    LET player == g.Players[playerID] IN
    CASE action = Fold ->
           [err |-> ErrNone, action |-> action,
            g |-> [g EXCEPT !.Players[playerID] = PlayerFold(@)]]
      [] action = Check ->
           IF player.CurrentBet < g.LastRaise
           THEN [err |-> ErrCannotCheck, action |-> action, g |-> g]
           ELSE [err |-> ErrNone, action |-> action, g |-> g]
      [] action = Call ->
           LET owed == g.LastRaise - player.CurrentBet
               short == owed > player.ChipCount
               callAmount == IF short THEN player.ChipCount ELSE owed
           IN  [err |-> ErrNone, action |-> IF short THEN AllIn ELSE action,
                g |-> [g EXCEPT !.Players[playerID] = Bet(@, callAmount),
                                !.Pot = @ + callAmount]]
      [] action = Raise ->
           LET totalBet == g.LastRaise + amount
               betAmount == totalBet - player.CurrentBet
           IN  IF amount < 1
               THEN [err |-> ErrMinRaise, action |-> action, g |-> g]
               ELSE IF betAmount > player.ChipCount
               THEN [err |-> ErrRaiseChips, action |-> action, g |-> g]
               ELSE [err |-> ErrNone, action |-> action,
                     g |-> [g EXCEPT !.Players[playerID] = Bet(@, betAmount),
                                     !.Pot = @ + betAmount,
                                     !.LastRaise = totalBet,
                                     !.MinRaise = amount]]
      [] action = AllIn ->
           LET allInAmount == player.ChipCount
               after == Bet(player, allInAmount)
           IN  [err |-> ErrNone, action |-> action,
                g |-> [g EXCEPT !.Players[playerID] = after,
                                !.Pot = @ + allInAmount,
                                !.LastRaise = IF after.CurrentBet > @
                                              THEN after.CurrentBet ELSE @]]

\* the switch of processAction on a player who may act: the error it returns,
\* or the game with the wager applied and the action to record
applyAction(g, playerID, action, amount) ==
    LET player == g.Players[playerID] IN
    CASE action = Fold ->
           [err |-> ErrNone, action |-> action,
            g |-> [g EXCEPT !.Players[playerID] = PlayerFold(@)]]
      [] action = Check ->
           IF player.CurrentBet < g.LastRaise
           THEN [err |-> ErrCannotCheck, action |-> action, g |-> g]
           ELSE [err |-> ErrNone, action |-> action, g |-> g]
      [] action = Call ->
           LET owed == g.LastRaise - player.CurrentBet
               short == owed > player.ChipCount
               callAmount == IF short THEN player.ChipCount ELSE owed
           IN  [err |-> ErrNone, action |-> IF short THEN AllIn ELSE action,
                g |-> [g EXCEPT !.Players[playerID] = Bet(@, callAmount),
                                !.Pot = @ + callAmount]]
      [] action = Raise ->
           LET totalBet == g.LastRaise + amount
               betAmount == totalBet - player.CurrentBet
           IN  IF amount < g.MinRaise
               THEN [err |-> ErrMinRaise, action |-> action, g |-> g]
               ELSE IF betAmount > player.ChipCount
               THEN [err |-> ErrRaiseChips, action |-> action, g |-> g]
               ELSE [err |-> ErrNone, action |-> action,
                     g |-> [g EXCEPT !.Players[playerID] = Bet(@, betAmount),
                                     !.Pot = @ + betAmount,
                                     !.LastRaise = totalBet,
                                     !.MinRaise = amount]]
      [] action = AllIn ->
           LET allInAmount == player.ChipCount
               after == Bet(player, allInAmount)
           IN  [err |-> ErrNone, action |-> action,
                g |-> [g EXCEPT !.Players[playerID] = after,
                                !.Pot = @ + allInAmount,
                                !.LastRaise = IF after.CurrentBet > @
                                              THEN after.CurrentBet ELSE @]]

\* seeded fault: processAction without the turn check
processActionNoTurnCheck(g, playerID, action, amount, hv) ==
    IF g.Phase = WaitingForPlayers \/ g.Phase = GameOver
    THEN [g |-> g, err |-> ErrPhase]
    ELSE IF playerID \notin DOMAIN g.Players
    THEN [g |-> g, err |-> ErrNotInGame]
    ELSE IF ~CanAct(g.Players[playerID])
    THEN [g |-> g, err |-> ErrCannotAct]
    ELSE LET r == applyAction(g, playerID, action, amount) IN
         IF r.err # ErrNone THEN [g |-> g, err |-> r.err]
         ELSE LET g1 == [r.g EXCEPT
                           !.Players[playerID].LastAction =
                               [Action |-> r.action, Amount |-> amount],
                           !.Actions = @ + 1]
                  g2 == advanceGame(g1, hv)
              IN  IF g2.panicked
                  THEN [g |-> [g2 EXCEPT !.panicked = FALSE], err |-> ErrPanic]
                  ELSE [g |-> g2, err |-> ErrNone]

\* seeded fault: processAction logging the actions its switch rejects
processActionLogsRejected(g, playerID, action, amount, hv) ==
    IF g.Phase = WaitingForPlayers \/ g.Phase = GameOver
    THEN [g |-> g, err |-> ErrPhase]
    ELSE IF playerID # getCurrentPlayerID(g)
    THEN [g |-> g, err |-> ErrNotYourTurn]
    ELSE IF playerID \notin DOMAIN g.Players
    THEN [g |-> g, err |-> ErrNotInGame]
    ELSE IF ~CanAct(g.Players[playerID])
    THEN [g |-> g, err |-> ErrCannotAct]
    ELSE LET r == applyAction(g, playerID, action, amount) IN
         IF r.err # ErrNone THEN [g |-> [g EXCEPT !.Actions = @ + 1], err |-> r.err]
         ELSE LET g1 == [r.g EXCEPT
                           !.Players[playerID].LastAction =
                               [Action |-> r.action, Amount |-> amount],
                           !.Actions = @ + 1]
                  g2 == advanceGame(g1, hv)
              IN  IF g2.panicked
                  THEN [g |-> [g2 EXCEPT !.panicked = FALSE], err |-> ErrPanic]
                  ELSE [g |-> g2, err |-> ErrNone]

\* processAction: [g |-> the game after the call, err |-> the error returned]
processAction(g, playerID, action, amount, hv) ==
    IF g.Phase = WaitingForPlayers \/ g.Phase = GameOver
    THEN [g |-> g, err |-> ErrPhase]
    ELSE IF playerID # getCurrentPlayerID(g)
    THEN [g |-> g, err |-> ErrNotYourTurn]
    ELSE IF playerID \notin DOMAIN g.Players
    THEN [g |-> g, err |-> ErrNotInGame]
    ELSE IF ~CanAct(g.Players[playerID])
    THEN [g |-> g, err |-> ErrCannotAct]
    ELSE LET r == applyAction(g, playerID, action, amount) IN
         IF r.err # ErrNone THEN [g |-> g, err |-> r.err]
         ELSE LET g1 == [r.g EXCEPT
                           !.Players[playerID].LastAction =
                               [Action |-> r.action, Amount |-> amount],
                           !.Actions = @ + 1]
                  g2 == advanceGame(g1, hv)
              IN  IF g2.panicked
                  THEN [g |-> [g2 EXCEPT !.panicked = FALSE], err |-> ErrPanic]
                  ELSE [g |-> g2, err |-> ErrNone]

---------------------------------------------------------------------------
(* package poker: cards and the evaluation of a 5-card hand *)

Hearts == 0
Diamonds == 1
Clubs == 2
Spades == 3
Suits == Hearts..Spades

Two == 2
Three == 3
Four == 4
Five == 5
Six == 6
Seven == 7
Eight == 8
Nine == 9
Ten == 10
Jack == 11
Queen == 12
King == 13
Ace == 14

HighCard == 0
OnePair == 1
TwoPair == 2
ThreeOfAKind == 3
Straight == 4
Flush == 5
FullHouse == 6
FourOfAKind == 7
StraightFlush == 8
RoyalFlush == 9

NewCard(rank, suit) ==
    [Rank |-> rank, Suit |-> suit]

\* the cards 5-card hands are drawn from
HandDeck ==
    {NewCard(Ace, Spades), NewCard(King, Spades), NewCard(Queen, Spades),
     NewCard(Jack, Spades), NewCard(Ten, Spades), NewCard(Nine, Spades),
     NewCard(Ace, Hearts), NewCard(Two, Diamonds)}

\* sort.Slice(hand.Cards, Rank descending) of NewHand, on the cards of a set;
\* the order of cards of equal rank, which sort.Slice leaves open, is not read
RECURSIVE sortCards(_)
sortCards(cards) ==
    IF cards = {} THEN <<>>
    ELSE LET top == CHOOSE c \in cards :
                        \A d \in cards :
                            \/ c.Rank > d.Rank
                            \/ c.Rank = d.Rank /\ c.Suit >= d.Suit
         IN  <<top>> \o sortCards(cards \ {top})

\* ranks[r] of evaluate: the number of cards of rank r
rankCounts(cards) ==
    [r \in 0..Ace |-> Cardinality({i \in DOMAIN cards : cards[i].Rank = r})]

\* suits[s] of evaluate: the number of cards of suit s
suitCounts(cards) ==
    [s \in Suits |-> Cardinality({i \in DOMAIN cards : cards[i].Suit = s})]

\* the first loop of checkStraight, from rank down to Two
RECURSIVE straightLoop(_, _, _, _)
straightLoop(ranks, rank, consecutive, high) ==
    IF rank < Two THEN [ok |-> FALSE, high |-> 0]
    ELSE LET n == IF ranks[rank] > 0 THEN consecutive + 1 ELSE 0
             h == IF ranks[rank] > 0 /\ n = 1 THEN rank ELSE high
         IN  IF n = 5 THEN [ok |-> TRUE, high |-> h]
             ELSE straightLoop(ranks, rank - 1, n, h)

\* seeded fault: checkStraight with the Ace as the high card of the wheel
checkStraightAceHigh(ranks) ==
    LET r == straightLoop(ranks, Ace, 0, 0) IN
    IF r.ok THEN r
    ELSE IF /\ ranks[Ace] > 0 /\ ranks[Two] > 0 /\ ranks[Three] > 0
            /\ ranks[Four] > 0 /\ ranks[Five] > 0
    THEN [ok |-> TRUE, high |-> Ace]
    ELSE [ok |-> FALSE, high |-> 0]

checkStraight(ranks) ==
    LET r == straightLoop(ranks, Ace, 0, 0) IN
    IF r.ok THEN r
    ELSE IF /\ ranks[Ace] > 0 /\ ranks[Two] > 0 /\ ranks[Three] > 0
            /\ ranks[Four] > 0 /\ ranks[Five] > 0
    THEN [ok |-> TRUE, high |-> Five]
    ELSE [ok |-> FALSE, high |-> 0]

\* the loop of kickerValue, from Go index i down to 0
RECURSIVE kickerLoop(_, _, _, _)
kickerLoop(kickers, i, value, multiplier) ==
    IF i < 0 THEN value
    ELSE kickerLoop(kickers, i - 1, value + kickers[i + 1] * multiplier,
                    multiplier * 100)

kickerValue(kickers) ==
    kickerLoop(kickers, Len(kickers) - 1, 0, 1)

\* the ranks from rank down to Two that count cards occur, highest first:
\* quads, trips, pairs and kickers of evaluate for count = 4, 3, 2, 1
RECURSIVE ranksWithCount(_, _, _)
ranksWithCount(ranks, count, rank) ==
    IF rank < Two THEN <<>>
    ELSE (IF ranks[rank] = count THEN <<rank>> ELSE <<>>)
         \o ranksWithCount(ranks, count, rank - 1)

\* Hand.evaluate on the sorted cards: the hand with Rank, Kickers and Value
evaluate(cards) ==
    LET ranks == rankCounts(cards)
        suits == suitCounts(cards)
        isFlush == \E s \in Suits : suits[s] = 5
        st == checkStraight(ranks)
        isStraight == st.ok
        straightHigh == st.high
        quads == ranksWithCount(ranks, 4, Ace)
        trips == ranksWithCount(ranks, 3, Ace)
        pairs == ranksWithCount(ranks, 2, Ace)
        kickers == ranksWithCount(ranks, 1, Ace)
        hand(rank, ks, value) ==
            [Cards |-> cards, Rank |-> rank, Kickers |-> ks, Value |-> value]
    IN  IF isStraight /\ isFlush
        THEN IF straightHigh = Ace /\ cards[2].Rank = King
             THEN hand(RoyalFlush, <<>>, RoyalFlush * 100000000 + Ace)
             ELSE hand(StraightFlush, <<>>, StraightFlush * 100000000 + straightHigh)
        ELSE IF Len(quads) = 1
        THEN hand(FourOfAKind, <<quads[1]>> \o kickers,
                  FourOfAKind * 100000000 + quads[1] * 1000000 + kickers[1])
        ELSE IF Len(trips) = 1 /\ Len(pairs) = 1
        THEN hand(FullHouse, <<trips[1], pairs[1]>>,
                  FullHouse * 100000000 + trips[1] * 1000000 + pairs[1])
        ELSE IF isFlush
        THEN hand(Flush, kickers, Flush * 100000000 + kickerValue(kickers))
        ELSE IF isStraight
        THEN hand(Straight, <<straightHigh>>, Straight * 100000000 + straightHigh)
        ELSE IF Len(trips) = 1
        THEN hand(ThreeOfAKind, <<trips[1]>> \o kickers,
                  ThreeOfAKind * 100000000 + trips[1] * 1000000 + kickerValue(kickers))
        ELSE IF Len(pairs) = 2
        THEN hand(TwoPair, pairs \o kickers,
                  TwoPair * 100000000 + pairs[1] * 1000000 + pairs[2] * 10000
                      + kickers[1])
        ELSE IF Len(pairs) = 1
        THEN hand(OnePair, <<pairs[1]>> \o kickers,
                  OnePair * 100000000 + pairs[1] * 1000000 + kickerValue(kickers))
        ELSE hand(HighCard, kickers, HighCard * 100000000 + kickerValue(kickers))

\* poker.NewHand(cards) for exactly five cards
NewHand(cards) ==
    evaluate(sortCards(cards))

---------------------------------------------------------------------------
(* Game: the exported methods, as [g |-> game after, err |-> error returned] *)

\* seeded fault: AddPlayer starting a hand whatever the phase
GameAddPlayerAnyPhase(g, id, buyIn) ==
    IF Cardinality(DOMAIN g.Players) >= g.MaxPlayers
    THEN [g |-> g, err |-> ErrGameFull]
    ELSE IF id \in DOMAIN g.Players
    THEN [g |-> g, err |-> ErrAlreadyInGame]
    ELSE LET g1 == [g EXCEPT
                      !.Players = [p \in DOMAIN g.Players \cup {id} |->
                                      IF p = id THEN NewPlayer(buyIn)
                                      ELSE g.Players[p]],
                      !.PlayerOrder = Append(@, id)]
         IN  IF Cardinality(DOMAIN g1.Players) >= g1.MinPlayers
             THEN [g |-> startNewHand(g1), err |-> ErrNone]
             ELSE [g |-> g1, err |-> ErrNone]

\* seeded fault: AddPlayer without the test for an id already seated
GameAddPlayerTwice(g, id, buyIn) ==
    IF Cardinality(DOMAIN g.Players) >= g.MaxPlayers
    THEN [g |-> g, err |-> ErrGameFull]
    ELSE LET g1 == [g EXCEPT
                      !.Players = [p \in DOMAIN g.Players \cup {id} |->
                                      IF p = id THEN NewPlayer(buyIn)
                                      ELSE g.Players[p]],
                      !.PlayerOrder = Append(@, id)]
         IN  IF Cardinality(DOMAIN g1.Players) >= g1.MinPlayers
                /\ g1.Phase = WaitingForPlayers
             THEN [g |-> startNewHand(g1), err |-> ErrNone]
             ELSE [g |-> g1, err |-> ErrNone]

\* Game.AddPlayer(NewPlayer(id, _, buyIn, _))
GameAddPlayer(g, id, buyIn) ==
    IF Cardinality(DOMAIN g.Players) >= g.MaxPlayers
    THEN [g |-> g, err |-> ErrGameFull]
    ELSE IF id \in DOMAIN g.Players
    THEN [g |-> g, err |-> ErrAlreadyInGame]
    ELSE LET g1 == [g EXCEPT
                      !.Players = [p \in DOMAIN g.Players \cup {id} |->
                                      IF p = id THEN NewPlayer(buyIn)
                                      ELSE g.Players[p]],
                      !.PlayerOrder = Append(@, id)]
         IN  IF Cardinality(DOMAIN g1.Players) >= g1.MinPlayers
                /\ g1.Phase = WaitingForPlayers
             THEN [g |-> startNewHand(g1), err |-> ErrNone]
             ELSE [g |-> g1, err |-> ErrNone]

\* Game.RemovePlayer(id); the error of the inner processAction is dropped
GameRemovePlayer(g, id, hv) ==
    IF id \notin DOMAIN g.Players
    THEN [g |-> g, err |-> ErrNotInGame]
    ELSE LET g1 == [g EXCEPT !.Players[id].Connected = FALSE,
                             !.Players[id].IsActive = FALSE]
         IN  IF getCurrentPlayerID(g1) = id /\ g1.Phase # WaitingForPlayers
             THEN [g |-> [processAction(g1, id, Fold, 0, hv).g EXCEPT !.panicked = FALSE],
                   err |-> ErrNone]
             ELSE [g |-> g1, err |-> ErrNone]

\* seeded fault: the callback starting a hand whatever the phase
nextHandCallbackAnyPhase(g) ==
    startNewHand(g)

\* the function endHand hands to time.AfterFunc
nextHandCallback(g) ==
    IF g.Phase = Showdown THEN startNewHand(g) ELSE g

---------------------------------------------------------------------------
(* The operations on a table, one action each *)

HandValues == [PlayerIDs -> 1..MaxStrength]
AnyHandValues == [id \in PlayerIDs |-> 1]

Op(op, err) ==
    [op |-> op, err |-> err]

Amounts(action) ==
    IF action = Raise THEN 1..MaxRaise ELSE {0}

\* the players with an accepted action on the street of g2, which a call
\* accepted from id took the game to from g1
Acted(g1, g2, id) ==
    IF g2.Phase # g1.Phase \/ g2.HandNumber # g1.HandNumber THEN {}
    ELSE acted \cup {id}

AddPlayer(id, buyIn) ==
    /\ LET r == GameAddPlayer(game, id, buyIn) IN
       /\ game' = r.g
       /\ lastOp' = Op("AddPlayer", r.err)
       /\ boughtIn' = IF r.err = ErrNone THEN boughtIn + buyIn ELSE boughtIn
       /\ acted' = IF r.g.HandNumber # game.HandNumber THEN {} ELSE acted
    /\ UNCHANGED handVars
    /\ UNCHANGED managerVars
    /\ UNCHANGED unitVars

RemovePlayer(id) ==
    /\ LET r == GameRemovePlayer(game, id, AnyHandValues) IN
       /\ game' = r.g
       /\ lastOp' = Op("RemovePlayer", r.err)
       /\ acted' = IF r.err = ErrNone /\ r.g.Actions # game.Actions
                   THEN Acted(game, r.g, id) ELSE acted
    /\ UNCHANGED boughtIn
    /\ UNCHANGED handVars
    /\ UNCHANGED managerVars
    /\ UNCHANGED unitVars

\* Game.ProcessAction(id, action, amount).  Hands are compared only when the
\* call completes the River round, so only there do the hand values matter.
ProcessAction(id, action, amount) ==
    /\ \E hv \in (IF game.Phase = River /\ id = getCurrentPlayerID(game)
                   THEN HandValues ELSE {AnyHandValues}) :
          LET r == processAction(game, id, action, amount, hv) IN
          /\ Len(r.g.timers) <= MaxTimers
          /\ r.g.Actions <= MaxActions
          /\ game' = r.g
          /\ lastOp' = Op("ProcessAction", r.err)
          /\ acted' = IF r.err = ErrNone THEN Acted(game, r.g, id) ELSE acted
    /\ UNCHANGED boughtIn
    /\ UNCHANGED handVars
    /\ UNCHANGED managerVars
    /\ UNCHANGED unitVars

\* a callback scheduled by endHand fires
NextHandTimer ==
    /\ game.HandNumber < MaxHands
    /\ \E i \in 1..Len(game.timers) :
          LET g1 == nextHandCallback([game EXCEPT !.timers = RemoveAt(@, i - 1)]) IN
          /\ game' = g1
          /\ acted' = IF g1.HandNumber # game.HandNumber THEN {} ELSE acted
    /\ lastOp' = Op("NextHandTimer", ErrNone)
    /\ UNCHANGED boughtIn
    /\ UNCHANGED handVars
    /\ UNCHANGED managerVars
    /\ UNCHANGED unitVars

\* the buy-ins of the first n ids of JoinOrder
RECURSIVE SumBuyIns(_)
SumBuyIns(n) ==
    IF n = 0 THEN 0 ELSE BuyIns[JoinOrder[n]] + SumBuyIns(n - 1)

NoHand == [Cards |-> <<>>, Rank |-> -1, Kickers |-> <<>>, Value |-> -1]
NoCmp == [done |-> FALSE, result |-> 0]

\* the 5-card hands over HandDeck
FiveCards ==
    {cs \in SUBSET HandDeck : Cardinality(cs) = 5}

\* h1 = NewHand(c1)
Evaluate1 ==
    /\ h1 = NoHand
    /\ h1' = NewHand(c1)
    /\ UNCHANGED <<c1, c2, h2, cmp>>
    /\ UNCHANGED gameVars
    /\ UNCHANGED managerVars
    /\ UNCHANGED unitVars

\* h2 = NewHand(c2)
Evaluate2 ==
    /\ h2 = NoHand
    /\ h2' = NewHand(c2)
    /\ UNCHANGED <<c1, c2, h1, cmp>>
    /\ UNCHANGED gameVars
    /\ UNCHANGED managerVars
    /\ UNCHANGED unitVars

\* cmp = CompareHands(h1, h2)
Compare ==
    /\ h1 # NoHand /\ h2 # NoHand /\ ~cmp.done
    /\ cmp' = [done |-> TRUE, result |-> CompareHands(h1, h2)]
    /\ UNCHANGED <<c1, c2, h1, h2>>
    /\ UNCHANGED gameVars
    /\ UNCHANGED managerVars
    /\ UNCHANGED unitVars

---------------------------------------------------------------------------
(* Manager: the registry of games, the two mutexes and the goroutines *)

\* the game id the model follows
GameID == "g1"
\* the goroutines serving requests, and the one running time.AfterFunc callbacks
Threads == {"t1", "t2"}
TimerThread == "tm"
Goroutines == Threads \cup {TimerThread}
NoThread == "none"

\* Manager.config, in the units of BuyIns
MaxTablesPerUser == 3
MinBuyIn == 2
MaxBuyIn == 5

\* sync.RWMutex: the goroutine holding it for writing, those holding it for reading
Unlocked == [w |-> NoThread, r |-> {}]

CanLock(mu) ==
    mu.w = NoThread /\ mu.r = {}

Lock(mu, t) ==
    [mu EXCEPT !.w = t]

\* seeded fault: an Unlock that leaves the mutex held
UnlockKept(mu, t) ==
    mu

Unlock(mu, t) ==
    [mu EXCEPT !.w = NoThread]

CanRLock(mu) ==
    mu.w = NoThread

RLock(mu, t) ==
    [mu EXCEPT !.r = @ \cup {t}]

RUnlock(mu, t) ==
    [mu EXCEPT !.r = @ \ {t}]

\* the arguments of a call: the operation, the player id and the action
NoArg == [op |-> "", id |-> NoPlayer, action |-> Fold]

\* NewManager, with every goroutine idle
ManagerIdle ==
    /\ games = {}
    /\ playerGames = [id \in PlayerIDs |-> <<>>]
    /\ mmu = Unlocked
    /\ gmu = Unlocked
    /\ pc = [t \in Goroutines |-> "idle"]
    /\ arg = [t \in Goroutines |-> NoArg]
    /\ started = 0

\* no call made on a deck
NoDeal == [op |-> "", count |-> 0, cards |-> <<>>, err |-> ""]

DeckIdle ==
    /\ deckCards = <<>> /\ dealt = <<>> /\ dealOut = NoDeal

\* the parts checked on their own, not in use
\* no snapshot taken
NoSnapshot == [GameID |-> ""]

ViewIdle ==
    /\ viewGame = NoSnapshot /\ viewTwin = NoSnapshot /\ viewer = NoPlayer
    /\ snapshot = NoSnapshot /\ snapshotTwin = NoSnapshot

\* no call made on a manager with several games
NoCall == [op |-> "", gameID |-> "", playerID |-> NoPlayer, buyIn |-> 0, err |-> ""]

LobbyIdle ==
    /\ tables = <<>> /\ configured = <<>> /\ lastCall = NoCall

\* no call made on a player
NoBet == [op |-> "", amount |-> 0, err |-> ""]

\* no hand dealt
NoDealing == [Phase |-> ""]

PartIdle ==
    /\ seven = <<>> /\ bestHand = [Cards |-> <<>>, Rank |-> -1, Kickers |-> <<>>, Value |-> -1]
    /\ bettor = NewPlayer(0) /\ betOut = NoBet
    /\ dealGame = NoDealing /\ dealFailed = 0

UnitIdle ==
    /\ DeckIdle
    /\ ViewIdle
    /\ LobbyIdle
    /\ PartIdle

HandIdle ==
    /\ c1 = {} /\ c2 = {} /\ h1 = NoHand /\ h2 = NoHand /\ cmp = NoCmp

Init ==
    /\ \E config \in Configs : game = NewGame(config)
    /\ lastOp = Op("NewGame", ErrNone)
    /\ boughtIn = 0
    /\ acted = {}
    /\ HandIdle
    /\ UnitIdle
    /\ ManagerIdle

Next ==
    \/ \E i \in 1..Len(JoinOrder) :
          /\ boughtIn >= SumBuyIns(i - 1)
          /\ AddPlayer(JoinOrder[i], BuyIns[JoinOrder[i]])
    \/ \E id \in PlayerIDs : RemovePlayer(id)
    \/ \E id \in PlayerIDs \cup {NoPlayer}, action \in PlayerActions :
          \E amount \in Amounts(action) : ProcessAction(id, action, amount)
    \/ NextHandTimer

Spec == Init /\ [][Next]_vars

\* the hand evaluator applied to any two 5-card hands over HandDeck
InitHand ==
    /\ \E config \in Configs : game = NewGame(config)
    /\ lastOp = Op("NewGame", ErrNone)
    /\ boughtIn = 0
    /\ acted = {}
    /\ c1 \in FiveCards
    /\ c2 \in FiveCards
    /\ h1 = NoHand /\ h2 = NoHand /\ cmp = NoCmp
    /\ ManagerIdle
    /\ UnitIdle

NextHand ==
    \/ Evaluate1
    \/ Evaluate2
    \/ Compare

SpecHand == InitHand /\ [][NextHand]_vars

\* the cards the low straights are drawn from: the wheel and the six-high and
\* seven-high straights, each of one suit and of two suits
WheelDeck ==
    {NewCard(Ace, Spades), NewCard(Two, Spades), NewCard(Three, Spades),
     NewCard(Four, Spades), NewCard(Five, Spades), NewCard(Six, Spades),
     NewCard(Seven, Spades), NewCard(Ace, Hearts), NewCard(Six, Hearts)}

\* the hand evaluator applied to any two 5-card hands over WheelDeck
InitWheel ==
    /\ \E config \in Configs : game = NewGame(config)
    /\ lastOp = Op("NewGame", ErrNone)
    /\ boughtIn = 0
    /\ acted = {}
    /\ c1 \in {cs \in SUBSET WheelDeck : Cardinality(cs) = 5}
    /\ c2 \in {cs \in SUBSET WheelDeck : Cardinality(cs) = 5}
    /\ h1 = NoHand /\ h2 = NoHand /\ cmp = NoCmp
    /\ ManagerIdle
    /\ UnitIdle

SpecWheel == InitWheel /\ [][NextHand]_vars

\* the closure backtrack of generateCombinations and its loop from Go index i:
\* the combinations of r cards that extend current with cards from i on
RECURSIVE backtrack(_, _, _, _)
RECURSIVE backtrackLoop(_, _, _, _)
backtrackLoop(cards, r, i, current) ==
    IF i >= Len(cards) THEN <<>>
    ELSE backtrack(cards, r, i + 1, Append(current, cards[i + 1]))
         \o backtrackLoop(cards, r, i + 1, current)

backtrack(cards, r, start, current) ==
    IF Len(current) = r THEN <<current>>
    ELSE backtrackLoop(cards, r, start, current)

generateCombinations(cards, r) ==
    backtrack(cards, r, 0, <<>>)

\* the loop of GetBestHand over the combinations from the i-th on; best is
\* bestHand, NoHand for nil
RECURSIVE bestHandLoop(_, _, _)
bestHandLoop(combinations, i, best) ==
    IF i > Len(combinations) THEN best
    ELSE LET combo == combinations[i]
             hand == NewHand({combo[n] : n \in 1..Len(combo)})
         IN  IF best = NoHand \/ CompareHands(hand, best) > 0
             THEN bestHandLoop(combinations, i + 1, hand)
             ELSE bestHandLoop(combinations, i + 1, best)

\* seeded fault: GetBestHand keeping the last of the hands of the best value
GetBestHandKeepsLast(cards) ==
    LET combinations == generateCombinations(cards, 5)
        RECURSIVE loop(_, _)
        loop(i, best) ==
            IF i > Len(combinations) THEN best
            ELSE LET combo == combinations[i]
                     hand == NewHand({combo[n] : n \in 1..Len(combo)})
                 IN  IF best = NoHand \/ CompareHands(hand, best) >= 0
                     THEN loop(i + 1, hand)
                     ELSE loop(i + 1, best)
    IN  loop(1, NoHand)

\* poker.GetBestHand(cards) for exactly seven cards
GetBestHand(cards) ==
    bestHandLoop(generateCombinations(cards, 5), 1, NoHand)

\* the cards 7-card hands are drawn from
BestDeck ==
    {NewCard(Ace, Spades), NewCard(King, Spades), NewCard(Queen, Spades),
     NewCard(Jack, Spades), NewCard(Ten, Spades), NewCard(Ten, Hearts),
     NewCard(Ace, Hearts), NewCard(Nine, Diamonds), NewCard(Two, Clubs),
     NewCard(Two, Diamonds)}

\* the orders in which seven cards are handed to GetBestHand: by rank, each
\* rotation of that order, and each of these reversed
SevenCards ==
    LET n == 7
        orders(cs) ==
            LET base == sortCards(cs) IN
            {[i \in 1..n |-> base[((i + k - 1) % n) + 1]] : k \in 0..(n - 1)}
            \cup {[i \in 1..n |-> base[((n - i + k) % n) + 1]] : k \in 0..(n - 1)}
    IN  UNION {orders(cs) : cs \in {x \in SUBSET BestDeck : Cardinality(x) = n}}

\* bestHand = GetBestHand(seven)
FindBestHand ==
    /\ bestHand = NoHand
    /\ bestHand' = GetBestHand(seven)
    /\ UNCHANGED seven
    /\ UNCHANGED <<gameVars, handVars, managerVars, deckVars, viewVars, lobbyVars>>
    /\ UNCHANGED <<playerVars, dealVars>>

\* GetBestHand applied to any seven cards of BestDeck
InitBest ==
    /\ \E config \in Configs : game = NewGame(config)
    /\ lastOp = Op("NewGame", ErrNone)
    /\ boughtIn = 0
    /\ acted = {}
    /\ HandIdle
    /\ ManagerIdle
    /\ DeckIdle
    /\ ViewIdle
    /\ LobbyIdle
    /\ seven \in SevenCards
    /\ bestHand = NoHand
    /\ bettor = NewPlayer(0) /\ betOut = NoBet
    /\ dealGame = NoDealing /\ dealFailed = 0

SpecBest == InitBest /\ [][FindBestHand]_vars

\* the largest stack of the player on which Bet is called
MaxStack == 4

\* player.Bet(amount)
PlayerBet(amount) ==
    /\ bettor' = Bet(bettor, amount)
    /\ betOut' = [op |-> "Bet", amount |-> amount, err |-> BetError(bettor, amount)]
    /\ UNCHANGED <<gameVars, handVars, managerVars, deckVars, viewVars, lobbyVars>>
    /\ UNCHANGED <<bestVars, dealVars>>

\* advancePhase on the player: player.CurrentBet = 0
PlayerNextStreet ==
    /\ bettor' = [bettor EXCEPT !.CurrentBet = 0]
    /\ betOut' = [op |-> "advancePhase", amount |-> 0, err |-> ErrNone]
    /\ UNCHANGED <<gameVars, handVars, managerVars, deckVars, viewVars, lobbyVars>>
    /\ UNCHANGED <<bestVars, dealVars>>

\* distributePots on the player: player.ChipCount += amount, for a player
\* who has chips in the pot of the hand
PlayerAward(amount) ==
    /\ bettor.TotalBet > 0 /\ bettor.TotalBet <= MaxStack
    /\ bettor.ChipCount + amount <= MaxStack
    /\ bettor' = [bettor EXCEPT !.ChipCount = @ + amount]
    /\ betOut' = [op |-> "distributePots", amount |-> amount, err |-> ErrNone]
    /\ UNCHANGED <<gameVars, handVars, managerVars, deckVars, viewVars, lobbyVars>>
    /\ UNCHANGED <<bestVars, dealVars>>

\* player.ResetForNewHand()
PlayerNextHand ==
    /\ bettor' = ResetForNewHand(bettor)
    /\ betOut' = [op |-> "ResetForNewHand", amount |-> 0, err |-> ErrNone]
    /\ UNCHANGED <<gameVars, handVars, managerVars, deckVars, viewVars, lobbyVars>>
    /\ UNCHANGED <<bestVars, dealVars>>

\* NewPlayer with any buy-in up to MaxStack
InitPlayer ==
    /\ \E config \in Configs : game = NewGame(config)
    /\ lastOp = Op("NewGame", ErrNone)
    /\ boughtIn = 0
    /\ acted = {}
    /\ HandIdle
    /\ ManagerIdle
    /\ DeckIdle
    /\ ViewIdle
    /\ LobbyIdle
    /\ seven = <<>> /\ bestHand = NoHand
    /\ \E buyIn \in 0..MaxStack : bettor = NewPlayer(buyIn)
    /\ betOut = NoBet
    /\ dealGame = NoDealing /\ dealFailed = 0

\* the calls the Game makes on a Player during a hand and between hands
NextPlayer ==
    \/ \E amount \in 0..(MaxStack + 1) : PlayerBet(amount)
    \/ PlayerNextStreet
    \/ \E amount \in 1..MaxStack : PlayerAward(amount)
    \/ PlayerNextHand

SpecPlayer == InitPlayer /\ [][NextPlayer]_vars

\* tables of three seats: one whose first hand starts when the second player
\* joins, so that the third joins during the hand, and one whose first hand
\* starts with all three
ThreeSeatConfigs ==
    {[MaxPlayers |-> 3, MinPlayers |-> n, SmallBlind |-> 1, BigBlind |-> 2] :
        n \in 2..3}

\* the third player brings more than the big blind, the first two exactly it
ThreeBuyIns == [id \in PlayerIDs |-> IF id = "p3" THEN 5 ELSE 2]

RECURSIVE SumThreeBuyIns(_)
SumThreeBuyIns(n) ==
    IF n = 0 THEN 0 ELSE ThreeBuyIns[JoinOrder[n]] + SumThreeBuyIns(n - 1)

InitThree ==
    /\ \E config \in ThreeSeatConfigs : game = NewGame(config)
    /\ lastOp = Op("NewGame", ErrNone)
    /\ boughtIn = 0
    /\ acted = {}
    /\ HandIdle
    /\ UnitIdle
    /\ ManagerIdle

\* the first hand of a table of three seats, with raises of one big blind
NextThree ==
    \/ \E i \in 1..Len(JoinOrder) :
          /\ boughtIn >= SumThreeBuyIns(i - 1)
          /\ AddPlayer(JoinOrder[i], ThreeBuyIns[JoinOrder[i]])
    \/ \E id \in PlayerIDs : RemovePlayer(id)
    \/ \E id \in PlayerIDs, action \in PlayerActions :
          ProcessAction(id, action, IF action = Raise THEN 2 ELSE 0)

SpecThree == InitThree /\ [][NextThree]_vars

\* the defaults of NewManager, which a table created without options gets
DefaultBuyIn == 10000
DefaultSmallBlind == 50
DefaultBigBlind == 100

\* a heads-up table with the default blinds
OpeningConfig ==
    [MaxPlayers |-> 2, MinPlayers |-> 2,
     SmallBlind |-> DefaultSmallBlind, BigBlind |-> DefaultBigBlind]

InitOpening ==
    /\ game = NewGame(OpeningConfig)
    /\ lastOp = Op("NewGame", ErrNone)
    /\ boughtIn = 0
    /\ acted = {}
    /\ HandIdle
    /\ UnitIdle
    /\ ManagerIdle

\* the first hand of the table: players joining with the default buy-in,
\* leaving, and acting with raises of one big blind
NextOpening ==
    \/ \E i \in 1..Len(JoinOrder) :
          /\ boughtIn >= (i - 1) * DefaultBuyIn
          /\ AddPlayer(JoinOrder[i], DefaultBuyIn)
    \/ \E id \in PlayerIDs : RemovePlayer(id)
    \/ \E id \in PlayerIDs, action \in PlayerActions :
          ProcessAction(id, action, IF action = Raise THEN DefaultBigBlind ELSE 0)

SpecOpening == InitOpening /\ [][NextOpening]_vars

---------------------------------------------------------------------------
(* package poker: the Deck.  The model's deck is made of the first         *)
(* MaxDeckRanks ranks of the suits DeckSuits, in the order of NewDeck's     *)
(* loops; the random source of Shuffle is the sequence js of its draws.    *)

MaxDeckRanks == 2
DeckSuits == Hearts..Diamonds
DeckRanks == Two..(Two + MaxDeckRanks - 1)
\* DealMultiple is called with these counts
DealCounts == -1..(Cardinality(DeckSuits) * MaxDeckRanks + 1)

\* error values of the Deck methods ("" is nil)
ErrEmptyDeck == "cannot deal from empty deck"
ErrNotEnoughCards == "not enough cards in deck"
ErrMakeSlice == "panic: runtime error: makeslice: len out of range"

\* the loops of NewDeck and of Reset: suit by suit, rank by rank
RECURSIVE rankLoop(_, _, _)
rankLoop(cards, suit, rank) ==
    IF rank > Two + MaxDeckRanks - 1 THEN cards
    ELSE rankLoop(Append(cards, NewCard(rank, suit)), suit, rank + 1)

RECURSIVE suitLoop(_, _)
suitLoop(cards, suit) ==
    IF suit \notin DeckSuits THEN cards
    ELSE suitLoop(rankLoop(cards, suit, Two), suit + 1)

\* NewDeck().Cards
NewDeck ==
    suitLoop(<<>>, Hearts)

\* the draws d.rng.Intn(i + 1) of one Shuffle of n cards, for i = n-1 .. 1
Draws(n) ==
    {js \in [1..(n - 1) -> 0..(n - 1)] : \A i \in 1..(n - 1) : js[i] <= i}

\* seeded fault: a swap that copies d.Cards[j] over d.Cards[i] only
swapCopy(cards, i, j) ==
    [cards EXCEPT ![i + 1] = cards[j + 1]]

\* d.Cards[i], d.Cards[j] = d.Cards[j], d.Cards[i]
swap(cards, i, j) ==
    [cards EXCEPT ![i + 1] = cards[j + 1], ![j + 1] = cards[i + 1]]

\* the loop of Shuffle, from Go index i down to 1
RECURSIVE shuffleLoop(_, _, _)
shuffleLoop(cards, i, js) ==
    IF i <= 0 THEN cards
    ELSE shuffleLoop(swap(cards, i, js[i]), i - 1, js)

\* Deck.Shuffle with the draws js
Shuffle(cards, js) ==
    shuffleLoop(cards, Len(cards) - 1, js)

\* seeded fault: Deal returning the top card and leaving it on the deck
DeckDealKeepsCard(cards) ==
    IF Len(cards) = 0
    THEN [cards |-> cards, out |-> <<>>, err |-> ErrEmptyDeck]
    ELSE [cards |-> cards, out |-> <<Head(cards)>>, err |-> ErrNone]

\* Deck.Deal: the cards left, the card returned (as a sequence) and the error
DeckDeal(cards) ==
    IF Len(cards) = 0
    THEN [cards |-> cards, out |-> <<>>, err |-> ErrEmptyDeck]
    ELSE [cards |-> Tail(cards), out |-> <<Head(cards)>>, err |-> ErrNone]

\* the loop of DealMultiple, from i on
RECURSIVE dealLoop(_, _, _, _)
dealLoop(cards, out, i, count) ==
    IF i >= count THEN [cards |-> cards, out |-> out, err |-> ErrNone]
    ELSE LET r == DeckDeal(cards) IN
         IF r.err # ErrNone THEN [cards |-> r.cards, out |-> <<>>, err |-> r.err]
         ELSE dealLoop(r.cards, out \o r.out, i + 1, count)

\* seeded fault: DealMultiple without the test of the number of cards left
DealMultipleNoCheck(cards, count) ==
    IF count < 0
    THEN [cards |-> cards, out |-> <<>>, err |-> ErrMakeSlice]
    ELSE dealLoop(cards, <<>>, 0, count)

\* Deck.DealMultiple; make([]Card, count) panics on a negative count
DealMultiple(cards, count) ==
    IF Len(cards) < count
    THEN [cards |-> cards, out |-> <<>>, err |-> ErrNotEnoughCards]
    ELSE IF count < 0
    THEN [cards |-> cards, out |-> <<>>, err |-> ErrMakeSlice]
    ELSE dealLoop(cards, <<>>, 0, count)

\* Deck.Reset with the draws js of its Shuffle
Reset(js) ==
    Shuffle(suitLoop(<<>>, Hearts), js)

DeckCall(op, count, r) ==
    [op |-> op, count |-> count, cards |-> r.out, err |-> r.err]

\* d.Shuffle()
ShuffleDeck ==
    /\ \E js \in Draws(Len(deckCards)) : deckCards' = Shuffle(deckCards, js)
    /\ dealOut' = [op |-> "Shuffle", count |-> 0, cards |-> <<>>, err |-> ErrNone]
    /\ UNCHANGED dealt
    /\ UNCHANGED <<gameVars, handVars, managerVars, viewVars, lobbyVars, partVars>>

\* d.Deal()
DealCard ==
    /\ LET r == DeckDeal(deckCards) IN
       /\ deckCards' = r.cards
       /\ dealt' = dealt \o r.out
       /\ dealOut' = DeckCall("Deal", 1, r)
    /\ UNCHANGED <<gameVars, handVars, managerVars, viewVars, lobbyVars, partVars>>

\* d.DealMultiple(count)
DealCards(count) ==
    /\ LET r == DealMultiple(deckCards, count) IN
       /\ deckCards' = r.cards
       /\ dealt' = dealt \o r.out
       /\ dealOut' = DeckCall("DealMultiple", count, r)
    /\ UNCHANGED <<gameVars, handVars, managerVars, viewVars, lobbyVars, partVars>>

\* d.Reset()
ResetDeck ==
    /\ \E js \in Draws(Len(NewDeck)) : deckCards' = Reset(js)
    /\ dealt' = <<>>
    /\ dealOut' = [op |-> "Reset", count |-> 0, cards |-> <<>>, err |-> ErrNone]
    /\ UNCHANGED <<gameVars, handVars, managerVars, viewVars, lobbyVars, partVars>>

\* a deck right after NewDeck
InitDeck ==
    /\ \E config \in Configs : game = NewGame(config)
    /\ lastOp = Op("NewGame", ErrNone)
    /\ boughtIn = 0
    /\ acted = {}
    /\ HandIdle
    /\ ManagerIdle
    /\ PartIdle
    /\ ViewIdle
    /\ LobbyIdle
    /\ deckCards = NewDeck
    /\ dealt = <<>>
    /\ dealOut = [op |-> "NewDeck", count |-> 0, cards |-> <<>>, err |-> ErrNone]

NextDeck ==
    \/ ShuffleDeck
    \/ DealCard
    \/ \E count \in DealCounts : DealCards(count)
    \/ ResetDeck

SpecDeck == InitDeck /\ [][NextDeck]_vars

---------------------------------------------------------------------------
(* Dealing with the cards themselves: a table of up to MaxPlayersPerTable  *)
(* seated players, the 52 cards of Deck.Reset, and the Deal calls of       *)
(* dealHoleCards, dealFlop, dealTurn and dealRiver, whose errors the Game   *)
(* drops.                                                                  *)

MaxPlayersPerTable == 10
\* at most this many seated players are without chips or disconnected
MaxIdle == 2

\* the 52 cards in the order of the loops of Deck.Reset
StandardDeck ==
    [i \in 1..DeckSize |->
        NewCard(Two + ((i - 1) % (Ace - Two + 1)),
                Hearts + ((i - 1) \div (Ace - Two + 1)))]

\* draws of the random source for one Shuffle of the 52 cards: every card
\* stays, every card is swapped with the first, every card with the middle
\* of the cards below it
DealDraws ==
    {[i \in 1..(DeckSize - 1) |-> i],
     [i \in 1..(DeckSize - 1) |-> 0],
     [i \in 1..(DeckSize - 1) |-> i \div 2]}

\* card, _ := g.Deck.Deal(): the card is Card{} when the deck is empty
dealOne(g) ==
    LET r == DeckDeal(g.Deck) IN
    [g |-> [g EXCEPT !.Deck = r.cards,
                     !.failed = IF r.err = ErrNone THEN @ ELSE @ + 1],
     card |-> IF r.err = ErrNone THEN r.out[1] ELSE NewCard(0, 0)]

\* the inner loop of dealHoleCards: one card to each active player from
\* seat i on
RECURSIVE holeCardLoop(_, _)
holeCardLoop(g, i) ==
    IF i > Len(g.PlayerOrder) THEN g
    ELSE LET id == g.PlayerOrder[i] IN
         IF g.Players[id].IsActive
         THEN LET r == dealOne(g) IN
              holeCardLoop([r.g EXCEPT !.Players[id].HoleCards =
                                          Append(@, r.card)], i + 1)
         ELSE holeCardLoop(g, i + 1)

\* dealHoleCards: two passes over the seats
dealHoleCardsDeck(g) ==
    holeCardLoop(holeCardLoop(g, 1), 1)

\* the loop of dealFlop, and the single deals of dealTurn and dealRiver
RECURSIVE communityLoop(_, _)
communityLoop(g, count) ==
    IF count = 0 THEN g
    ELSE LET r == dealOne(g) IN
         communityLoop([r.g EXCEPT !.CommunityCards = Append(@, r.card)],
                       count - 1)

\* burn one card, then deal count community cards
dealStreet(g, count) ==
    communityLoop(dealOne(g).g, count)

\* startNewHand, as far as the cards go: ResetForNewHand for every player,
\* Deck.Reset with the draws js, dealHoleCards
startHandDeck(g, js) ==
    dealHoleCardsDeck(
        [g EXCEPT !.Phase = PreFlop,
                  !.CommunityCards = <<>>,
                  !.Players = [id \in DOMAIN g.Players |->
                      [g.Players[id] EXCEPT
                          !.HoleCards = <<>>,
                          !.IsActive = g.Players[id].ChipCount > 0
                                          /\ g.Players[id].Connected]],
                  !.Deck = Shuffle(StandardDeck, js)])

\* advancePhase, as far as the cards go
advancePhaseDeck(g) ==
    CASE g.Phase = PreFlop -> [dealStreet(g, 3) EXCEPT !.Phase = Flop]
      [] g.Phase = Flop -> [dealStreet(g, 1) EXCEPT !.Phase = Turn]
      [] g.Phase = Turn -> [dealStreet(g, 1) EXCEPT !.Phase = River]
      [] g.Phase = River -> [g EXCEPT !.Phase = Showdown]
      [] OTHER -> g

\* n seated players, of whom those in broke have no chips and those in gone
\* are disconnected
SeatedTable(n, broke, gone) ==
    [Phase |-> WaitingForPlayers,
     PlayerOrder |-> [i \in 1..n |-> i],
     Players |-> [id \in 1..n |->
                    [ChipCount |-> IF id \in broke THEN 0 ELSE 1,
                     Connected |-> id \notin gone,
                     IsActive |-> id \notin gone,
                     HoleCards |-> <<>>]],
     Deck |-> StandardDeck,
     CommunityCards |-> <<>>,
     failed |-> 0]

\* the hand starts: on the last AddPlayer, or when the callback of endHand
\* fires in Showdown
DealStartHand ==
    /\ dealGame.Phase \in {WaitingForPlayers, Showdown}
    /\ \E js \in DealDraws :
          LET g == startHandDeck([dealGame EXCEPT !.failed = 0], js) IN
          /\ dealGame' = [g EXCEPT !.failed = 0]
          /\ dealFailed' = dealFailed + g.failed
    /\ UNCHANGED <<gameVars, handVars, managerVars, deckVars, viewVars, lobbyVars>>
    /\ UNCHANGED <<bestVars, playerVars>>

\* a betting round is complete: the next street is dealt, or the hand ends
DealAdvancePhase ==
    /\ dealGame.Phase \in {PreFlop, Flop, Turn, River}
    /\ LET g == advancePhaseDeck([dealGame EXCEPT !.failed = 0]) IN
       /\ dealGame' = [g EXCEPT !.failed = 0]
       /\ dealFailed' = dealFailed + g.failed
    /\ UNCHANGED <<gameVars, handVars, managerVars, deckVars, viewVars, lobbyVars>>
    /\ UNCHANGED <<bestVars, playerVars>>

\* everybody but one player folds: the hand ends before the river
DealFoldOut ==
    /\ dealGame.Phase \in {PreFlop, Flop, Turn, River}
    /\ dealGame' = [dealGame EXCEPT !.Phase = Showdown]
    /\ UNCHANGED dealFailed
    /\ UNCHANGED <<gameVars, handVars, managerVars, deckVars, viewVars, lobbyVars>>
    /\ UNCHANGED <<bestVars, playerVars>>

\* a table of 2 to MaxPlayersPerTable seated players before its first hand
InitDeal ==
    /\ \E config \in Configs : game = NewGame(config)
    /\ lastOp = Op("NewGame", ErrNone)
    /\ boughtIn = 0
    /\ acted = {}
    /\ HandIdle
    /\ ManagerIdle
    /\ DeckIdle
    /\ ViewIdle
    /\ LobbyIdle
    /\ seven = <<>> /\ bestHand = NoHand
    /\ bettor = NewPlayer(0) /\ betOut = NoBet
    /\ \E n \in 2..MaxPlayersPerTable :
          \E broke \in SUBSET (1..n), gone \in SUBSET (1..n) :
             /\ Cardinality(broke \cup gone) <= MaxIdle
             /\ dealGame = SeatedTable(n, broke, gone)
    /\ dealFailed = 0

NextDeal ==
    \/ DealStartHand
    \/ DealAdvancePhase
    \/ DealFoldOut

SpecDeal == InitDeal /\ [][NextDeal]_vars

---------------------------------------------------------------------------
(* The goroutines of the manager: one action per statement that takes a    *)
(* mutex, and one per critical section (which ends by releasing the mutex  *)
(* it took).  ProcessAction is called here without raises: the wagers are  *)
(* the subject of Spec.                                                    *)

LockPlayers == {"p1", "p2"}
LockActions == {Fold, Check, Call}

\* the calls a request goroutine makes
Calls ==
    {[op |-> op, id |-> NoPlayer, action |-> Fold] :
        op \in {"CreateGame", "GetGameState", "ListGames", "CleanupInactiveGames"}}
    \cup {[op |-> op, id |-> id, action |-> Fold] :
        op \in {"JoinGame", "LeaveGame"}, id \in LockPlayers}
    \cup {[op |-> "ProcessAction", id |-> id, action |-> action] :
        id \in LockPlayers, action \in LockActions}

\* the first statement of a call: ProcessAction and GetGameState start with GetGame
Entry(op) ==
    IF op \in {"ProcessAction", "GetGameState"} THEN "GetGame" ELSE op

Goto(t, at) ==
    /\ pc' = [pc EXCEPT ![t] = at]
    /\ UNCHANGED arg

Return(t) ==
    /\ pc' = [pc EXCEPT ![t] = "idle"]
    /\ arg' = [arg EXCEPT ![t] = NoArg]

\* the first occurrence of gameID removed from a player's list
removeGameID(list, gameID) ==
    IF \E i \in 1..Len(list) : list[i] = gameID
    THEN RemoveAt(list, (CHOOSE i \in 1..Len(list) :
                            /\ list[i] = gameID
                            /\ \A j \in 1..(i - 1) : list[j] # gameID) - 1)
    ELSE list

\* Manager.findAvailableSeat: a free seat, or -1.  Every player holds one seat
\* of 0..MaxPlayers-1, so a seat is free iff fewer than MaxPlayers are seated.
findAvailableSeat(g) ==
    IF Cardinality(DOMAIN g.Players) < g.MaxPlayers THEN 0 ELSE -1

\* a request arrives and a goroutine starts serving it
Request(t, a) ==
    /\ pc[t] = "idle"
    /\ started < MaxOps
    /\ started' = started + 1
    /\ pc' = [pc EXCEPT ![t] = Entry(a.op)]
    /\ arg' = [arg EXCEPT ![t] = a]
    /\ UNCHANGED <<game, games, playerGames, mmu, gmu>>
    /\ UNCHANGED histVars
    /\ UNCHANGED handVars
    /\ UNCHANGED unitVars

\* Manager.CreateGame, all of it under m.mu.  The handler makes a fresh id for
\* every game; the model follows one Game object, so GameID is created again
\* only when no goroutine and no callback holds the object created before.
CreateGame(t) ==
    /\ pc[t] = "CreateGame"
    /\ CanLock(mmu)
    /\ IF GameID \in games
       THEN UNCHANGED <<game, games>>
       ELSE /\ \A u \in Goroutines \ {t} :
                  pc[u] \in {"idle"} \cup {Entry(a.op) : a \in Calls}
            /\ game.timers = <<>>
            /\ gmu = Unlocked
            /\ \E config \in Configs : game' = NewGame(config)
            /\ games' = games \cup {GameID}
    /\ Return(t)
    /\ UNCHANGED <<playerGames, mmu, gmu, started>>
    /\ UNCHANGED histVars
    /\ UNCHANGED handVars
    /\ UNCHANGED unitVars

\* Manager.JoinGame: m.mu.Lock and the tests before findAvailableSeat
JoinGame_Lock(t) ==
    /\ pc[t] = "JoinGame"
    /\ CanLock(mmu)
    /\ IF \/ GameID \notin games
          \/ Len(playerGames[arg[t].id]) >= MaxTablesPerUser
          \/ BuyIns[arg[t].id] < MinBuyIn
          \/ BuyIns[arg[t].id] > MaxBuyIn
       THEN /\ Return(t)
            /\ UNCHANGED mmu
       ELSE /\ mmu' = Lock(mmu, t)
            /\ Goto(t, "findAvailableSeat_RLock")
    /\ UNCHANGED <<game, games, playerGames, gmu, started>>
    /\ UNCHANGED histVars
    /\ UNCHANGED handVars
    /\ UNCHANGED unitVars

\* findAvailableSeat: game.mu.RLock
findAvailableSeat_RLock(t) ==
    /\ pc[t] = "findAvailableSeat_RLock"
    /\ CanRLock(gmu)
    /\ gmu' = RLock(gmu, t)
    /\ Goto(t, "findAvailableSeat_Read")
    /\ UNCHANGED <<game, games, playerGames, mmu, started>>
    /\ UNCHANGED histVars
    /\ UNCHANGED handVars
    /\ UNCHANGED unitVars

\* findAvailableSeat: the loop over game.Players, RUnlock, and JoinGame's test
findAvailableSeat_Read(t) ==
    /\ pc[t] = "findAvailableSeat_Read"
    /\ gmu' = RUnlock(gmu, t)
    /\ IF findAvailableSeat(game) = -1
       THEN /\ mmu' = Unlock(mmu, t)
            /\ Return(t)
       ELSE /\ Goto(t, "AddPlayer_Lock")
            /\ UNCHANGED mmu
    /\ UNCHANGED <<game, games, playerGames, started>>
    /\ UNCHANGED histVars
    /\ UNCHANGED handVars
    /\ UNCHANGED unitVars

\* Game.AddPlayer: g.mu.Lock
AddPlayer_Lock(t) ==
    /\ pc[t] = "AddPlayer_Lock"
    /\ CanLock(gmu)
    /\ gmu' = Lock(gmu, t)
    /\ Goto(t, "AddPlayer_Body")
    /\ UNCHANGED <<game, games, playerGames, mmu, started>>
    /\ UNCHANGED histVars
    /\ UNCHANGED handVars
    /\ UNCHANGED unitVars

\* Game.AddPlayer under g.mu, then the rest of JoinGame under m.mu
AddPlayer_Body(t) ==
    /\ pc[t] = "AddPlayer_Body"
    /\ LET r == GameAddPlayer(game, arg[t].id, BuyIns[arg[t].id]) IN
       /\ game' = r.g
       /\ playerGames' = IF r.err = ErrNone
                     THEN [playerGames EXCEPT ![arg[t].id] = Append(@, GameID)]
                     ELSE playerGames
    /\ gmu' = Unlock(gmu, t)
    /\ mmu' = Unlock(mmu, t)
    /\ Return(t)
    /\ UNCHANGED <<games, started>>
    /\ UNCHANGED histVars
    /\ UNCHANGED handVars
    /\ UNCHANGED unitVars

\* Manager.LeaveGame: m.mu.Lock and the lookup of the game
LeaveGame_Lock(t) ==
    /\ pc[t] = "LeaveGame"
    /\ CanLock(mmu)
    /\ IF GameID \notin games
       THEN /\ Return(t)
            /\ UNCHANGED mmu
       ELSE /\ mmu' = Lock(mmu, t)
            /\ Goto(t, "RemovePlayer_Lock")
    /\ UNCHANGED <<game, games, playerGames, gmu, started>>
    /\ UNCHANGED histVars
    /\ UNCHANGED handVars
    /\ UNCHANGED unitVars

\* Game.RemovePlayer: g.mu.Lock
RemovePlayer_Lock(t) ==
    /\ pc[t] = "RemovePlayer_Lock"
    /\ CanLock(gmu)
    /\ gmu' = Lock(gmu, t)
    /\ Goto(t, "RemovePlayer_Body")
    /\ UNCHANGED <<game, games, playerGames, mmu, started>>
    /\ UNCHANGED histVars
    /\ UNCHANGED handVars
    /\ UNCHANGED unitVars

\* Game.RemovePlayer under g.mu, then LeaveGame's update of m.players
RemovePlayer_Body(t) ==
    /\ pc[t] = "RemovePlayer_Body"
    /\ LET r == GameRemovePlayer(game, arg[t].id, AnyHandValues) IN
       /\ game' = r.g
       /\ IF r.err # ErrNone
          THEN /\ mmu' = Unlock(mmu, t)
               /\ Return(t)
               /\ UNCHANGED playerGames
          ELSE /\ playerGames' = [playerGames EXCEPT ![arg[t].id] = removeGameID(@, GameID)]
               /\ Goto(t, "LeaveGame_Len")
               /\ UNCHANGED mmu
    /\ gmu' = Unlock(gmu, t)
    /\ UNCHANGED <<games, started>>
    /\ UNCHANGED histVars
    /\ UNCHANGED handVars
    /\ UNCHANGED unitVars

\* Manager.LeaveGame: len(game.Players) == 0, read without game.mu.  The
\* length is one word: a read that races with a goroutine between g.mu.Lock
\* and g.mu.Unlock sees a length the map had before, during or after that
\* goroutine's writes; the map only shrinks there, so the test sees an empty
\* map only if it is empty before or after, which are the lengths this step
\* reads when it is taken before or after the step of that goroutine.
LeaveGame_Len(t) ==
    /\ pc[t] = "LeaveGame_Len"
    /\ games' = IF Cardinality(DOMAIN game.Players) = 0
                THEN games \ {GameID} ELSE games
    /\ mmu' = Unlock(mmu, t)
    /\ Return(t)
    /\ UNCHANGED <<game, playerGames, gmu, started>>
    /\ UNCHANGED histVars
    /\ UNCHANGED handVars
    /\ UNCHANGED unitVars

\* Manager.GetGame, all of it under m.mu.RLock, for ProcessAction and GetGameState
GetGame(t) ==
    /\ pc[t] = "GetGame"
    /\ CanRLock(mmu)
    /\ IF GameID \notin games
       THEN Return(t)
       ELSE Goto(t, IF arg[t].op = "ProcessAction"
                    THEN "ProcessAction_Lock" ELSE "GetGameState_RLock")
    /\ UNCHANGED <<game, games, playerGames, mmu, gmu, started>>
    /\ UNCHANGED histVars
    /\ UNCHANGED handVars
    /\ UNCHANGED unitVars

\* Game.ProcessAction: g.mu.Lock
ProcessAction_Lock(t) ==
    /\ pc[t] = "ProcessAction_Lock"
    /\ CanLock(gmu)
    /\ gmu' = Lock(gmu, t)
    /\ Goto(t, "ProcessAction_Body")
    /\ UNCHANGED <<game, games, playerGames, mmu, started>>
    /\ UNCHANGED histVars
    /\ UNCHANGED handVars
    /\ UNCHANGED unitVars

\* Game.ProcessAction under g.mu; the deferred Unlock runs on a panic too
ProcessAction_Body(t) ==
    /\ pc[t] = "ProcessAction_Body"
    /\ \E hv \in (IF game.Phase = River /\ arg[t].id = getCurrentPlayerID(game)
                   THEN HandValues ELSE {AnyHandValues}) :
          game' = processAction(game, arg[t].id, arg[t].action, 0, hv).g
    /\ gmu' = Unlock(gmu, t)
    /\ Return(t)
    /\ UNCHANGED <<games, playerGames, mmu, started>>
    /\ UNCHANGED histVars
    /\ UNCHANGED handVars
    /\ UNCHANGED unitVars

\* Game.GetGameState: g.mu.RLock
GetGameState_RLock(t) ==
    /\ pc[t] = "GetGameState_RLock"
    /\ CanRLock(gmu)
    /\ gmu' = RLock(gmu, t)
    /\ Goto(t, "GetGameState_Read")
    /\ UNCHANGED <<game, games, playerGames, mmu, started>>
    /\ UNCHANGED histVars
    /\ UNCHANGED handVars
    /\ UNCHANGED unitVars

\* Game.GetGameState: the copy of the state, then RUnlock
GetGameState_Read(t) ==
    /\ pc[t] = "GetGameState_Read"
    /\ gmu' = RUnlock(gmu, t)
    /\ Return(t)
    /\ UNCHANGED <<game, games, playerGames, mmu, started>>
    /\ UNCHANGED histVars
    /\ UNCHANGED handVars
    /\ UNCHANGED unitVars

\* Manager.ListGames: m.mu.RLock
ListGames_RLock(t) ==
    /\ pc[t] = "ListGames"
    /\ CanRLock(mmu)
    /\ IF games = {}
       THEN /\ Return(t)
            /\ UNCHANGED mmu
       ELSE /\ mmu' = RLock(mmu, t)
            /\ Goto(t, "ListGames_GameRLock")
    /\ UNCHANGED <<game, games, playerGames, gmu, started>>
    /\ UNCHANGED histVars
    /\ UNCHANGED handVars
    /\ UNCHANGED unitVars

\* Manager.ListGames: game.mu.RLock, with m.mu held for reading
ListGames_GameRLock(t) ==
    /\ pc[t] = "ListGames_GameRLock"
    /\ CanRLock(gmu)
    /\ gmu' = RLock(gmu, t)
    /\ Goto(t, "ListGames_Read")
    /\ UNCHANGED <<game, games, playerGames, mmu, started>>
    /\ UNCHANGED histVars
    /\ UNCHANGED handVars
    /\ UNCHANGED unitVars

\* Manager.ListGames: the GameInfo of the game, then both RUnlocks
ListGames_Read(t) ==
    /\ pc[t] = "ListGames_Read"
    /\ gmu' = RUnlock(gmu, t)
    /\ mmu' = RUnlock(mmu, t)
    /\ Return(t)
    /\ UNCHANGED <<game, games, playerGames, started>>
    /\ UNCHANGED histVars
    /\ UNCHANGED handVars
    /\ UNCHANGED unitVars

\* Manager.CleanupInactiveGames: m.mu.Lock
Cleanup_Lock(t) ==
    /\ pc[t] = "CleanupInactiveGames"
    /\ CanLock(mmu)
    /\ IF games = {}
       THEN /\ Return(t)
            /\ UNCHANGED mmu
       ELSE /\ mmu' = Lock(mmu, t)
            /\ Goto(t, "Cleanup_GameRLock")
    /\ UNCHANGED <<game, games, playerGames, gmu, started>>
    /\ UNCHANGED histVars
    /\ UNCHANGED handVars
    /\ UNCHANGED unitVars

\* Manager.CleanupInactiveGames: game.mu.RLock, with m.mu held
Cleanup_GameRLock(t) ==
    /\ pc[t] = "Cleanup_GameRLock"
    /\ CanRLock(gmu)
    /\ gmu' = RLock(gmu, t)
    /\ Goto(t, "Cleanup_Read")
    /\ UNCHANGED <<game, games, playerGames, mmu, started>>
    /\ UNCHANGED histVars
    /\ UNCHANGED handVars
    /\ UNCHANGED unitVars

\* Manager.CleanupInactiveGames: the test under game.mu, then the delete.
\* Whether LastActivity is older than the cutoff depends on the clock.
Cleanup_Read(t) ==
    /\ pc[t] = "Cleanup_Read"
    /\ \E old \in BOOLEAN :
          games' = IF old /\ Cardinality(DOMAIN game.Players) = 0
                   THEN games \ {GameID} ELSE games
    /\ gmu' = RUnlock(gmu, t)
    /\ mmu' = Unlock(mmu, t)
    /\ Return(t)
    /\ UNCHANGED <<game, playerGames, started>>
    /\ UNCHANGED histVars
    /\ UNCHANGED handVars
    /\ UNCHANGED unitVars

\* the delay of a time.AfterFunc of endHand is over: its callback starts
Timer_Fire ==
    /\ pc[TimerThread] = "idle"
    /\ \E i \in 1..Len(game.timers) :
          game' = [game EXCEPT !.timers = RemoveAt(@, i - 1)]
    /\ Goto(TimerThread, "Timer_Lock")
    /\ UNCHANGED <<games, playerGames, mmu, gmu, started>>
    /\ UNCHANGED histVars
    /\ UNCHANGED handVars
    /\ UNCHANGED unitVars

\* the callback: g.mu.Lock
Timer_Lock ==
    /\ pc[TimerThread] = "Timer_Lock"
    /\ CanLock(gmu)
    /\ gmu' = Lock(gmu, TimerThread)
    /\ Goto(TimerThread, "Timer_Body")
    /\ UNCHANGED <<game, games, playerGames, mmu, started>>
    /\ UNCHANGED histVars
    /\ UNCHANGED handVars
    /\ UNCHANGED unitVars

\* the callback under g.mu
Timer_Body ==
    /\ pc[TimerThread] = "Timer_Body"
    /\ game' = nextHandCallback(game)
    /\ gmu' = Unlock(gmu, TimerThread)
    /\ Return(TimerThread)
    /\ UNCHANGED <<games, playerGames, mmu, started>>
    /\ UNCHANGED histVars
    /\ UNCHANGED handVars
    /\ UNCHANGED unitVars

\* the calls that take the first hand of a heads-up table to its showdown
Opening ==
    <<[id |-> "p2", action |-> Call], [id |-> "p1", action |-> Check],
      [id |-> "p1", action |-> Check], [id |-> "p1", action |-> Check],
      [id |-> "p1", action |-> Check]>>

RECURSIVE Played(_, _)
Played(g, calls) ==
    IF calls = <<>> THEN g
    ELSE Played(processAction(g, Head(calls).id, Head(calls).action, 0,
                              AnyHandValues).g,
                Tail(calls))

\* the table after JoinGame of p1 and of p2 and the first n calls of Opening
Table(config, n) ==
    Played(GameAddPlayer(GameAddPlayer(NewGame(config), "p1", BuyIns["p1"]).g,
                         "p2", BuyIns["p2"]).g,
           SubSeq(Opening, 1, n))

\* the tables a manager starts with: p1 waiting for an opponent, or p1 and p2
\* somewhere in their first hand
Tables(config) ==
    {GameAddPlayer(NewGame(config), "p1", BuyIns["p1"]).g}
    \cup {Table(config, n) : n \in 0..Len(Opening)}

\* either a new manager, or a manager holding one of Tables, with no call
\* in progress
InitLock ==
    \/ Init
    \/ /\ \E config \in Configs : game \in Tables(config)
       /\ lastOp = Op("NewGame", ErrNone)
       /\ boughtIn = SumBuyIns(Len(game.PlayerOrder))
       /\ acted = {}
       /\ HandIdle
       /\ UnitIdle
       /\ games = {GameID}
       /\ playerGames = [id \in PlayerIDs |->
                            IF id \in DOMAIN game.Players THEN <<GameID>> ELSE <<>>]
       /\ mmu = Unlocked
       /\ gmu = Unlocked
       /\ pc = [t \in Goroutines |-> "idle"]
       /\ arg = [t \in Goroutines |-> NoArg]
       /\ started = 0

\* the steps of a request goroutine inside a writing method of the Game
Critical(t) ==
    \/ AddPlayer_Body(t)
    \/ RemovePlayer_Body(t)
    \/ ProcessAction_Body(t)

\* its other steps
Outside(t) ==
    \/ \E a \in Calls : Request(t, a)
    \/ CreateGame(t)
    \/ JoinGame_Lock(t)
    \/ findAvailableSeat_RLock(t)
    \/ findAvailableSeat_Read(t)
    \/ AddPlayer_Lock(t)
    \/ LeaveGame_Lock(t)
    \/ RemovePlayer_Lock(t)
    \/ LeaveGame_Len(t)
    \/ GetGame(t)
    \/ ProcessAction_Lock(t)
    \/ GetGameState_RLock(t)
    \/ GetGameState_Read(t)
    \/ ListGames_RLock(t)
    \/ ListGames_GameRLock(t)
    \/ ListGames_Read(t)
    \/ Cleanup_Lock(t)
    \/ Cleanup_GameRLock(t)
    \/ Cleanup_Read(t)

Step(t) ==
    \/ Outside(t)
    \/ Critical(t)

\* the steps of the callback goroutine before it holds g.mu
TimerOutside ==
    \/ Timer_Fire
    \/ Timer_Lock

TimerStep ==
    \/ TimerOutside
    \/ Timer_Body

NextLock ==
    \/ \E t \in Threads : Step(t)
    \/ TimerStep

SpecLock == InitLock /\ [][NextLock]_vars

\* goroutine t is inside a writing method of the Game, which never blocks
InCritical(t) ==
    pc[t] \in {"AddPlayer_Body", "RemovePlayer_Body", "ProcessAction_Body"}

\* Weak fairness of each goroutine: the Go scheduler eventually runs every
\* goroutine that stays runnable, and wakes a goroutine blocked on a mutex
\* when the mutex is released.  The statement a goroutine is at decides which
\* of its steps is enabled, so fairness of Step(t) is fairness of Outside(t)
\* and of Critical(t), and likewise for the callback.  A critical section is
\* enabled exactly when the goroutine is in it, so its fairness is written
\* with ENABLED <<Critical(t)>>_vars spelled out as InCritical(t).
SpecLockFair ==
    /\ SpecLock
    /\ \A t \in Threads :
          /\ WF_vars(Outside(t))
          /\ []<>(~InCritical(t)) \/ []<><<Critical(t)>>_vars
    /\ WF_vars(TimerOutside)
    /\ []<>(pc[TimerThread] # "Timer_Body") \/ []<><<Timer_Body>>_vars

---------------------------------------------------------------------------
(* Game.GetGameState, on games whose cards are cards: the hole cards of a   *)
(* player, the community cards and g.Deck.Cards are sequences of cards.    *)
(* Username, SeatPosition and LastActivity are not fields of the model.    *)

\* the copy of player.LastAction, nil when the player has not acted
ActionState(player) ==
    IF player.LastAction = NoAction THEN NoAction
    ELSE [Action |-> player.LastAction.Action, Amount |-> player.LastAction.Amount]

\* the PlayerState of pid before the hole cards are filled in
PlayerState(g, pid) ==
    LET player == g.Players[pid] IN
    [ID |-> pid, ChipCount |-> player.ChipCount, CurrentBet |-> player.CurrentBet,
     HasFolded |-> player.HasFolded, IsAllIn |-> player.IsAllIn,
     Connected |-> player.Connected, HoleCards |-> <<>>,
     LastAction |-> ActionState(player)]

\* seeded fault: GetGameState showing every player's hole cards
GetGameStateAllCards(g, playerID) ==
    [GameID |-> GameID, Phase |-> g.Phase, Pot |-> g.Pot,
     CommunityCards |-> g.CommunityCards,
     Players |-> [i \in 1..Len(g.PlayerOrder) |->
                     LET pid == g.PlayerOrder[i] IN
                     [PlayerState(g, pid) EXCEPT !.HoleCards = g.Players[pid].HoleCards]],
     CurrentPlayer |-> getCurrentPlayerID(g),
     HandNumber |-> g.HandNumber,
     CanAct |-> (getCurrentPlayerID(g) = playerID)]

\* Game.GetGameState(playerID): the GameState returned
GetGameState(g, playerID) ==
    [GameID |-> GameID, Phase |-> g.Phase, Pot |-> g.Pot,
     CommunityCards |-> g.CommunityCards,
     Players |-> [i \in 1..Len(g.PlayerOrder) |->
                     LET pid == g.PlayerOrder[i] IN
                     IF pid = playerID
                     THEN [PlayerState(g, pid) EXCEPT !.HoleCards = g.Players[pid].HoleCards]
                     ELSE PlayerState(g, pid)],
     CurrentPlayer |-> getCurrentPlayerID(g),
     HandNumber |-> g.HandNumber,
     CanAct |-> (getCurrentPlayerID(g) = playerID)]

\* the cards dealt as hole cards, the cards dealt to the board, in the order
\* they are dealt, and the cards that stay in the deck
HoleDeck ==
    {NewCard(Ace, Spades), NewCard(King, Spades), NewCard(Queen, Spades),
     NewCard(Jack, Spades)}
Board ==
    <<NewCard(Two, Hearts), NewCard(Three, Hearts), NewCard(Four, Hearts),
      NewCard(Five, Hearts), NewCard(Six, Hearts)>>
Undealt ==
    {<<NewCard(Seven, Diamonds), NewCard(Eight, Diamonds)>>,
     <<NewCard(Eight, Diamonds), NewCard(Seven, Diamonds)>>}

\* the ways of dealing two cards of HoleDeck to each of p1 and p2
HoleCardDeals ==
    {hole \in [LockPlayers -> [1..2 -> HoleDeck]] :
        Cardinality({hole[id][i] : id \in LockPlayers, i \in 1..2}) = 4}

\* the game g, which counts its cards, with the cards themselves
WithCards(g, hole, cards) ==
    [g EXCEPT !.Players = [id \in DOMAIN g.Players |->
                              [g.Players[id] EXCEPT
                                 !.HoleCards = IF @ = 0 THEN <<>> ELSE hole[id]]],
              !.CommunityCards = SubSeq(Board, 1, @),
              !.Deck = cards]

\* the hole cards id holds in g
HoleCardsOf(g, id) ==
    IF id \in DOMAIN g.Players THEN g.Players[id].HoleCards ELSE <<>>

\* a table of Tables with its cards, a viewer, and a second deal of the same
\* table that gives the viewer the same hole cards
InitView ==
    /\ \E config \in Configs : game = NewGame(config)
    /\ lastOp = Op("NewGame", ErrNone)
    /\ boughtIn = 0
    /\ acted = {}
    /\ HandIdle
    /\ ManagerIdle
    /\ PartIdle
    /\ DeckIdle
    /\ LobbyIdle
    /\ viewer \in PlayerIDs \cup {NoPlayer}
    /\ \E config \in Configs, hole \in HoleCardDeals, twin \in HoleCardDeals :
          \E g \in Tables(config), cards \in Undealt, other \in Undealt :
             /\ viewGame = WithCards(g, hole, cards)
             /\ viewTwin = WithCards(g, twin, other)
             /\ HoleCardsOf(viewGame, viewer) = HoleCardsOf(viewTwin, viewer)
    /\ snapshot = NoSnapshot
    /\ snapshotTwin = NoSnapshot

\* GetGameState(viewer) called on the game and on its twin
TakeSnapshots ==
    /\ snapshot = NoSnapshot
    /\ snapshot' = GetGameState(viewGame, viewer)
    /\ snapshotTwin' = GetGameState(viewTwin, viewer)
    /\ UNCHANGED <<viewGame, viewTwin, viewer>>
    /\ UNCHANGED <<gameVars, handVars, managerVars, deckVars, lobbyVars, partVars>>

SpecView == InitView /\ [][TakeSnapshots]_vars

---------------------------------------------------------------------------
(* The Manager with several games.  CreateGame, JoinGame and LeaveGame hold *)
(* m.mu from their first statement to their return, so each is one action. *)
(* Buy-ins are in the units of MinBuyIn and MaxBuyIn.                      *)

GameIDs == {"g1", "g2", "g3", "g4"}
LobbyPlayers == {"p1"}
LobbyBuyIns == {1, 5}

ErrGameNotFound == "game not found"
ErrGameAlreadyExists == "game already exists"
ErrTooManyTables == "player is in too many tables"
ErrInvalidBuyIn == "invalid buy-in amount"

\* Manager.config: the defaults of NewManager, for a table of config
ManagerConfig(config) ==
    [MaxPlayers |-> config.MaxPlayers, MinPlayers |-> config.MinPlayers,
     SmallBlind |-> config.SmallBlind, BigBlind |-> config.BigBlind,
     MaxTablesPerUser |-> MaxTablesPerUser,
     MinBuyIn |-> MinBuyIn, MaxBuyIn |-> MaxBuyIn]

\* the GameOption WithBuyIn(_, minBuyIn, maxBuyIn) applied to config; the
\* default buy-in it also sets is copied to Game.BuyIn, which no method reads
WithBuyIn(config, minBuyIn, maxBuyIn) ==
    [config EXCEPT !.MinBuyIn = minBuyIn, !.MaxBuyIn = maxBuyIn]

\* the options CreateGame is called with: none, or WithBuyIn(_, 1, 3)
GameOptions ==
    {<<>>, <<[minBuyIn |-> 1, maxBuyIn |-> 3]>>}

\* the loop of CreateGame over its options
RECURSIVE applyOptions(_, _)
applyOptions(config, options) ==
    IF options = <<>> THEN config
    ELSE applyOptions(WithBuyIn(config, Head(options).minBuyIn, Head(options).maxBuyIn),
                      Tail(options))

\* Manager.CreateGame on m = [games, players, config]: the manager after the
\* call, the config the game was built from, and the error
ManagerCreateGame(m, gameID, options) ==
    IF gameID \in DOMAIN m.games
    THEN [m |-> m, config |-> m.config, err |-> ErrGameAlreadyExists]
    ELSE LET config == applyOptions(m.config, options) IN
         [m |-> [m EXCEPT !.games = [id \in DOMAIN m.games \cup {gameID} |->
                                        IF id = gameID THEN NewGame(config)
                                        ELSE m.games[id]]],
          config |-> config, err |-> ErrNone]

\* seeded fault: JoinGame without the test of the player's number of tables
ManagerJoinGameNoLimit(m, gameID, playerID, buyIn) ==
    IF gameID \notin DOMAIN m.games
    THEN [m |-> m, err |-> ErrGameNotFound]
    ELSE IF buyIn < m.config.MinBuyIn \/ buyIn > m.config.MaxBuyIn
    THEN [m |-> m, err |-> ErrInvalidBuyIn]
    ELSE IF findAvailableSeat(m.games[gameID]) = -1
    THEN [m |-> m, err |-> ErrGameFull]
    ELSE LET r == GameAddPlayer(m.games[gameID], playerID, buyIn) IN
         IF r.err # ErrNone THEN [m |-> m, err |-> r.err]
         ELSE [m |-> [m EXCEPT !.games[gameID] = r.g,
                               !.players[playerID] = Append(@, gameID)],
               err |-> ErrNone]

\* Manager.JoinGame
ManagerJoinGame(m, gameID, playerID, buyIn) ==
    IF gameID \notin DOMAIN m.games
    THEN [m |-> m, err |-> ErrGameNotFound]
    ELSE IF Len(m.players[playerID]) >= m.config.MaxTablesPerUser
    THEN [m |-> m, err |-> ErrTooManyTables]
    ELSE IF buyIn < m.config.MinBuyIn \/ buyIn > m.config.MaxBuyIn
    THEN [m |-> m, err |-> ErrInvalidBuyIn]
    ELSE IF findAvailableSeat(m.games[gameID]) = -1
    THEN [m |-> m, err |-> ErrGameFull]
    ELSE LET r == GameAddPlayer(m.games[gameID], playerID, buyIn) IN
         IF r.err # ErrNone THEN [m |-> m, err |-> r.err]
         ELSE [m |-> [m EXCEPT !.games[gameID] = r.g,
                               !.players[playerID] = Append(@, gameID)],
               err |-> ErrNone]

\* Manager.LeaveGame
ManagerLeaveGame(m, gameID, playerID) ==
    IF gameID \notin DOMAIN m.games
    THEN [m |-> m, err |-> ErrGameNotFound]
    ELSE LET r == GameRemovePlayer(m.games[gameID], playerID, AnyHandValues) IN
         IF r.err # ErrNone THEN [m |-> m, err |-> r.err]
         ELSE LET m1 == [m EXCEPT !.games[gameID] = r.g,
                                  !.players[playerID] = removeGameID(@, gameID)]
              IN  IF Cardinality(DOMAIN r.g.Players) = 0
                  THEN [m |-> [m1 EXCEPT !.games = [id \in DOMAIN m1.games \ {gameID} |->
                                                       m1.games[id]]],
                        err |-> ErrNone]
                  ELSE [m |-> m1, err |-> ErrNone]

\* the manager of the state
TheManager ==
    [games |-> tables, players |-> playerGames,
     config |-> ManagerConfig(CHOOSE config \in Configs : TRUE)]

Called(op, gameID, playerID, buyIn, r) ==
    /\ tables' = r.m.games
    /\ games' = DOMAIN r.m.games
    /\ playerGames' = r.m.players
    /\ lastCall' = [op |-> op, gameID |-> gameID, playerID |-> playerID,
                    buyIn |-> buyIn, err |-> r.err]
    /\ UNCHANGED <<game, lastOp, boughtIn, acted, mmu, gmu, pc, arg, started>>
    /\ UNCHANGED <<handVars, deckVars, viewVars, partVars>>

LobbyCreateGame(gameID, options) ==
    LET r == ManagerCreateGame(TheManager, gameID, options) IN
    /\ Called("CreateGame", gameID, NoPlayer, 0, r)
    /\ configured' = IF r.err # ErrNone THEN configured
                     ELSE [id \in DOMAIN configured \cup {gameID} |->
                              IF id = gameID THEN r.config ELSE configured[id]]

LobbyJoinGame(gameID, playerID, buyIn) ==
    /\ Called("JoinGame", gameID, playerID, buyIn,
              ManagerJoinGame(TheManager, gameID, playerID, buyIn))
    /\ UNCHANGED configured

LobbyLeaveGame(gameID, playerID) ==
    /\ Called("LeaveGame", gameID, playerID, 0,
              ManagerLeaveGame(TheManager, gameID, playerID))
    /\ UNCHANGED configured

\* NewManager
InitLobby ==
    /\ \E config \in Configs : game = NewGame(config)
    /\ lastOp = Op("NewGame", ErrNone)
    /\ boughtIn = 0
    /\ acted = {}
    /\ HandIdle
    /\ ManagerIdle
    /\ PartIdle
    /\ DeckIdle
    /\ ViewIdle
    /\ LobbyIdle

NextLobby ==
    \/ \E gameID \in GameIDs, options \in GameOptions :
          LobbyCreateGame(gameID, options)
    \/ \E gameID \in GameIDs, playerID \in LobbyPlayers, buyIn \in LobbyBuyIns :
          LobbyJoinGame(gameID, playerID, buyIn)
    \/ \E gameID \in GameIDs, playerID \in LobbyPlayers :
          LobbyLeaveGame(gameID, playerID)

SpecLobby == InitLobby /\ [][NextLobby]_vars

---------------------------------------------------------------------------
(* Vocabulary of the claims *)

Streets == {PreFlop, Flop, Turn, River}
Callers == PlayerIDs \cup {NoPlayer}

RECURSIVE SumChips(_, _)
SumChips(ps, ids) ==
    IF ids = {} THEN 0
    ELSE LET id == CHOOSE x \in ids : TRUE IN
         ps[id].ChipCount + SumChips(ps, ids \ {id})

TotalChips(g) ==
    SumChips(g.Players, DOMAIN g.Players)

NonFolded(g) ==
    {id \in DOMAIN g.Players : ~g.Players[id].HasFolded}

\* seated players who have chips and are connected
Funded(g) ==
    {id \in DOMAIN g.Players : g.Players[id].ChipCount > 0 /\ g.Players[id].Connected}

\* this step is an accepted ProcessAction call (made by the player to act)
AcceptedAction ==
    lastOp'.op = "ProcessAction" /\ lastOp'.err = ErrNone /\ game' # game

\* this step is an accepted ProcessAction call in which endHand ran to its end
SettledHand ==
    /\ AcceptedAction
    /\ \/ Len(game'.timers) = Len(game.timers) + 1
       \/ game'.Phase = GameOver

\* the game right after the wager of an accepted action by id, before advanceGame
AfterWager(g, id, action, amount) ==
    applyAction(g, id, action, amount).g

---------------------------------------------------------------------------
(* C1: in every reachable state the chips of the seated players plus the   *)
(* pot equal the sum of the buy-ins of all players ever added.             *)
C1_ClosedChipEconomy ==
    TotalChips(game) + game.Pot = boughtIn

(* C2, as stated: a ProcessAction call by anyone but the player to act     *)
(* changes nothing and returns "not your turn".                            *)
C2_RejectedAsNotYourTurn ==
    \A id \in Callers, action \in PlayerActions : \A amount \in Amounts(action) :
        id # getCurrentPlayerID(game) =>
            LET r == processAction(game, id, action, amount, AnyHandValues) IN
            r.g = game /\ r.err = ErrNotYourTurn

(* C2, amended: a ProcessAction call by anyone but the player to act       *)
(* changes nothing and returns an error: "not your turn" while a hand is   *)
(* running or awaiting the next one, the phase error in WaitingForPlayers  *)
(* and GameOver, where the phase is checked before the turn.               *)
C2_TurnEnforcement ==
    \A id \in Callers, action \in PlayerActions : \A amount \in Amounts(action) :
        id # getCurrentPlayerID(game) =>
            LET r == processAction(game, id, action, amount, AnyHandValues) IN
            /\ r.g = game
            /\ r.err = IF game.Phase \in {WaitingForPlayers, GameOver}
                       THEN ErrPhase ELSE ErrNotYourTurn

C2_Witness ==
    /\ lastOp = Op("ProcessAction", ErrNotYourTurn)
    /\ game.Phase \in Streets
    /\ \E id \in DOMAIN game.Players :
          id # getCurrentPlayerID(game) /\ CanAct(game.Players[id])

(* C3: a step that takes a street to the next street or to showdown with   *)
(* two or more players not folded is taken only when every player who can  *)
(* act has acted on that street and has a street bet equal to the          *)
(* street-high bet.                                                        *)
C3_RoundComplete ==
    [][(AcceptedAction /\ game.Phase \in Streets /\ game'.Phase # game.Phase)
        => LET id == getCurrentPlayerID(game)
               last == game'.Players[id].LastAction
               g1 == AfterWager(game, id, last.Action, last.Amount)
           IN  Cardinality(NonFolded(g1)) >= 2
               => \A q \in DOMAIN g1.Players :
                     CanAct(g1.Players[q])
                     => /\ q \in acted \cup {id}
                        /\ g1.Players[q].CurrentBet = g1.LastRaise]_vars

(* C4: when RemovePlayer is called during a hand for the player to act,    *)
(* on return that player is folded and either the hand has ended or the    *)
(* turn is with a player who can act.                                      *)
C4_LeaveOnTurnFolds ==
    \A id \in DOMAIN game.Players :
        (id = getCurrentPlayerID(game) /\ game.Phase \in Streets)
        => LET g2 == GameRemovePlayer(game, id, AnyHandValues).g IN
           /\ id \in DOMAIN g2.Players => g2.Players[id].HasFolded
           /\ \/ g2.Phase \notin Streets
              \/ /\ getCurrentPlayerID(g2) \in DOMAIN g2.Players
                 /\ CanAct(g2.Players[getCurrentPlayerID(g2)])

(* C5: the game never rests in PreFlop, Flop, Turn or River with two or    *)
(* more players not folded who are all all-in, so that nobody can act.     *)
C5_AllInRunOut ==
    game.Phase \in Streets
    => ~(/\ Cardinality(NonFolded(game)) >= 2
         /\ \A id \in NonFolded(game) : game.Players[id].IsAllIn)

\* the chips of id when a call returns with game g: a player whom
\* removeEliminatedPlayers took off the table in that call had none
ChipsAfter(g, id) ==
    IF id \in DOMAIN g.Players THEN g.Players[id].ChipCount ELSE 0

(* C6: an accepted action that leaves exactly one player not folded ends   *)
(* the hand at once: that player's chips grow by the whole pot, the pot is *)
(* 0, and every further ProcessAction call is rejected.                    *)
C6_FoldOutAward ==
    \A action \in PlayerActions : \A amount \in Amounts(action) :
        LET id == getCurrentPlayerID(game)
            r == processAction(game, id, action, amount, AnyHandValues)
            g1 == AfterWager(game, id, action, amount)
        IN  (r.err = ErrNone /\ Cardinality(NonFolded(g1)) = 1)
            => LET w == CHOOSE x \in NonFolded(g1) : TRUE IN
               /\ ChipsAfter(r.g, w) = g1.Players[w].ChipCount + g1.Pot
               /\ r.g.Pot = 0
               /\ \A id2 \in Callers, a2 \in PlayerActions : \A m2 \in Amounts(a2) :
                     processAction(r.g, id2, a2, m2, AnyHandValues).err # ErrNone

C6_Witness ==
    /\ lastOp = Op("ProcessAction", ErrNone)
    /\ Cardinality(NonFolded(game)) = 1
    /\ game.Pot = 0
    /\ \E id \in DOMAIN game.Players :
          /\ game.Players[id].LastAction.Action = Fold
          /\ \E w \in NonFolded(game) : game.Players[w].ChipCount > BuyIns[w]

RECURSIVE SumMin(_, _, _)
SumMin(bets, c, ids) ==
    IF ids = {} THEN 0
    ELSE LET id == CHOOSE x \in ids : TRUE IN
         min(c, bets[id]) + SumMin(bets, c, ids \ {id})

(* C7: at a showdown a player who is all-in with cumulative hand bet c     *)
(* receives at most min(c, cumulative bet of q) chips from each player q.  *)
C7_TieredSidePots ==
    [][(SettledHand /\ game.Phase = River)
        => LET bets == [q \in DOMAIN game.Players |->
                          IF q \in DOMAIN game'.Players
                          THEN game'.Players[q].TotalBet
                          ELSE game.Players[q].TotalBet]
           IN  \A p \in DOMAIN game'.Players :
                  (game'.Players[p].IsAllIn /\ ~game'.Players[p].HasFolded)
                  => game'.Players[p].ChipCount
                       <= SumMin(bets, bets[p], DOMAIN game.Players)]_vars

(* C8: after a hand is settled the game is in GameOver only if fewer than  *)
(* MinPlayers seated players have chips and are connected; otherwise the   *)
(* next hand is scheduled.                                                 *)
C8_EndsOnlyForLackOfPlayers ==
    [][SettledHand
        => (game'.Phase = GameOver
            => Cardinality(Funded(game')) < game'.MinPlayers)]_vars

(* C9: after a hand is settled with fewer than MinPlayers seated players   *)
(* who have chips and are connected, the game is in GameOver.              *)
C9_EndsWhenTooFewCanPlay ==
    [][SettledHand
        => (Cardinality(Funded(game')) < game'.MinPlayers
            => game'.Phase = GameOver)]_vars

(* C10: whenever two 5-card hands have been evaluated and compared and the *)
(* category of the first is higher than the category of the second, the    *)
(* value of the first is greater and CompareHands returned 1.              *)
C10_CategoryOrdering ==
    (cmp.done /\ h1.Rank > h2.Rank)
    => (h1.Value > h2.Value /\ cmp.result = 1)


\* the players of g who hold a hand at a showdown: not folded, dealt two cards
Contenders(g) ==
    {id \in NonFolded(g) : g.Players[id].HoleCards = 2}

\* the contenders of g whose best hand has the highest value under hv
BestHands(g, hv) ==
    {id \in Contenders(g) : \A q \in Contenders(g) : hv[id] >= hv[q]}

\* the number of players of the set ids seated before id
SeatedBefore(g, ids, id) ==
    Cardinality({q \in ids : \E i, j \in 1..Len(g.PlayerOrder) :
                    i < j /\ g.PlayerOrder[i] = q /\ g.PlayerOrder[j] = id})

ToAct(g, id) ==
    /\ g.Phase \in Streets
    /\ id = getCurrentPlayerID(g)
    /\ id \in DOMAIN g.Players
    /\ CanAct(g.Players[id])

Max(a, b) ==
    IF a > b THEN a ELSE b

(* C13: an accepted AllIn of the player to act moves the whole stack into  *)
(* the pot: the chips are 0 and the all-in flag is set; if the resulting   *)
(* street bet exceeds the street-high, the street-high becomes that bet    *)
(* and the minimum raise becomes the excess over the old street-high;      *)
(* otherwise street-high and minimum raise are unchanged.                  *)
C13_AllInRule ==
    \A id \in DOMAIN game.Players :
        ToAct(game, id) =>
        LET r == processAction(game, id, AllIn, 0, AnyHandValues)
            g1 == AfterWager(game, id, AllIn, 0)
            before == game.Players[id]
            bet == before.CurrentBet + before.ChipCount
        IN  r.err = ErrNone =>
               /\ g1.Players[id].ChipCount = 0
               /\ g1.Players[id].IsAllIn
               /\ g1.Pot = game.Pot + before.ChipCount
               /\ g1.LastRaise = Max(game.LastRaise, bet)
               /\ r.g.MinRaise = IF bet > game.LastRaise
                                  THEN bet - game.LastRaise ELSE game.MinRaise

(* C14: a Check by the player to act is accepted exactly when the player's *)
(* street bet equals the street-high; otherwise it is rejected with no     *)
(* change.  An accepted Check wagers nothing, and while the hand goes on   *)
(* after the call every stack and the pot are as before.                   *)
C14_CheckRule ==
    \A id \in DOMAIN game.Players :
        ToAct(game, id) =>
        LET r == processAction(game, id, Check, 0, AnyHandValues) IN
        /\ r.err = ErrNone <=> game.Players[id].CurrentBet = game.LastRaise
        /\ r.err # ErrNone => (r.err = ErrCannotCheck /\ r.g = game)
        /\ r.err = ErrNone =>
              /\ AfterWager(game, id, Check, 0) = game
              /\ r.g.Phase \in Streets =>
                    /\ r.g.Pot = game.Pot
                    /\ \A q \in DOMAIN game.Players :
                          r.g.Players[q].ChipCount = game.Players[q].ChipCount

\* after an accepted check the hand goes on with chips in the pot
C14_Witness ==
    /\ lastOp = Op("ProcessAction", ErrNone)
    /\ game.Phase \in Streets
    /\ game.Pot > 0
    /\ \E q \in DOMAIN game.Players :
          /\ game.Players[q].LastAction.Action = Check
          /\ game.Players[q].ChipCount > 0

(* C15: an accepted Call by the player to act moves exactly                *)
(* min(street-high - street bet, stack) chips from the player to the pot;  *)
(* if the stack is smaller than the amount owed the player is all-in with  *)
(* a street bet below the street-high and the action is recorded as an     *)
(* all-in, otherwise as a call; street-high and minimum raise are as       *)
(* before.                                                                 *)
C15_CallRule ==
    \A id \in DOMAIN game.Players :
        ToAct(game, id) =>
        LET r == processAction(game, id, Call, 0, AnyHandValues)
            g1 == AfterWager(game, id, Call, 0)
            before == game.Players[id]
            owed == game.LastRaise - before.CurrentBet
            moved == min(owed, before.ChipCount)
        IN  r.err = ErrNone =>
               /\ g1.Players[id].ChipCount = before.ChipCount - moved
               /\ g1.Players[id].CurrentBet = before.CurrentBet + moved
               /\ g1.Pot = game.Pot + moved
               /\ g1.LastRaise = game.LastRaise
               /\ r.g.MinRaise = game.MinRaise
               /\ r.g.Players[id].LastAction.Action =
                     IF before.ChipCount < owed THEN AllIn ELSE Call
               /\ before.ChipCount < owed =>
                     /\ g1.Players[id].IsAllIn
                     /\ g1.Players[id].CurrentBet < g1.LastRaise

\* the player to act owes more than the stack, and the call is accepted and
\* recorded as an all-in
C15_Witness ==
    \E id \in DOMAIN game.Players :
        /\ ToAct(game, id)
        /\ game.Players[id].ChipCount > 0
        /\ game.Players[id].ChipCount < game.LastRaise - game.Players[id].CurrentBet
        /\ LET r == processAction(game, id, Call, 0, AnyHandValues) IN
           /\ r.err = ErrNone
           /\ r.g.Players[id].LastAction.Action = AllIn
           /\ r.g.Players[id].ChipCount = 0

(* C16: a ProcessAction call that returns an error leaves the whole game   *)
(* as it was, whoever calls, whatever the action and the amount.           *)
C16_AtomicRejection ==
    \A id \in Callers, action \in PlayerActions : \A amount \in Amounts(action) :
        \A hv \in HandValues :
            LET r == processAction(game, id, action, amount, hv) IN
            r.err # ErrNone => r.g = game

\* a raise the stack cannot cover was rejected in a running hand with bets made
C16_Witness ==
    /\ lastOp = Op("ProcessAction", ErrRaiseChips)
    /\ game.Phase \in Streets
    /\ game.Pot > 0
    /\ ToAct(game, getCurrentPlayerID(game))

(* C18: a next-hand callback starts a new hand only if no hand has started *)
(* and the game has not ended since the hand that scheduled it; otherwise  *)
(* it changes nothing.  No two pending callbacks were scheduled by the     *)
(* same hand, and the hand number grows by exactly 1 when a hand starts.   *)
C18_NoDoubleStart ==
    [][/\ game'.HandNumber \in {game.HandNumber, game.HandNumber + 1}
       /\ \A i, j \in 1..Len(game.timers) : game.timers[i] = game.timers[j] => i = j
       /\ lastOp'.op = "NextHandTimer" =>
             \E i \in 1..Len(game.timers) :
                LET rest == [game EXCEPT !.timers = RemoveAt(@, i - 1)] IN
                IF game.timers[i] = game.HandNumber /\ game.Phase # GameOver
                THEN /\ game' = startNewHand(rest)
                     /\ game'.HandNumber = game.HandNumber + 1
                ELSE game' = rest]_vars

\* the callback of hand 1 has started hand 2
C18_Witness ==
    /\ lastOp = Op("NextHandTimer", ErrNone)
    /\ game.HandNumber = 2
    /\ game.Phase = PreFlop
    /\ game.timers = <<>>

\* goroutine t is inside an operation that writes the game: between
\* g.mu.Lock and g.mu.Unlock of AddPlayer, RemovePlayer, ProcessAction or
\* the next-hand callback
Mutating(t) ==
    pc[t] \in {"AddPlayer_Body", "RemovePlayer_Body", "ProcessAction_Body", "Timer_Body"}

\* the statement goroutine t is at reads or writes fields of the game
Touching(t) ==
    \/ Mutating(t)
    \/ pc[t] \in {"findAvailableSeat_Read", "GetGameState_Read", "ListGames_Read",
                  "Cleanup_Read", "LeaveGame_Len"}

HoldsGame(t) ==
    gmu.w = t \/ t \in gmu.r

HoldsManager(t) ==
    mmu.w = t \/ t \in mmu.r

(* C17: every goroutine that is at a statement reading or writing the      *)
(* game holds the game's lock, and no goroutine is at such a statement     *)
(* while another one is inside a mutating operation on the game.           *)
C17_MutualExclusion ==
    /\ \A t \in Goroutines : Touching(t) => HoldsGame(t)
    /\ \A t, u \in Goroutines : t # u /\ Mutating(u) => ~Touching(t)

\* the statements that take the manager's lock
ManagerLockSites ==
    {"CreateGame", "JoinGame", "LeaveGame", "GetGame", "ListGames",
     "CleanupInactiveGames"}

(* C19: a goroutine never takes the manager's lock while it holds a game's *)
(* lock, a goroutine holding the game's lock for writing holds it alone,   *)
(* and every operation a goroutine has started eventually completes.       *)
C19_DeadlockFreedom ==
    /\ [](\A t \in Goroutines :
            /\ HoldsGame(t) => pc[t] \notin ManagerLockSites
            /\ gmu.w = t => gmu.r = {})
    /\ \A t \in Goroutines : (pc[t] # "idle") ~> (pc[t] = "idle")

\* LeaveGame holds the manager's lock and waits for the game's lock, held by
\* a ProcessAction, while another request waits for the manager's lock
C19_Witness ==
    \E t, u \in Threads :
        /\ t # u
        /\ pc[t] = "RemovePlayer_Lock" /\ mmu.w = t
        /\ pc[TimerThread] = "Timer_Body" /\ gmu.w = TimerThread
        /\ pc[u] \in ManagerLockSites

\* no goroutine is inside a call
Quiescent ==
    \A t \in Goroutines : pc[t] = "idle"

Seated(id) ==
    \E i \in 1..Len(game.PlayerOrder) : game.PlayerOrder[i] = id

Registered(id) ==
    \E i \in 1..Len(playerGames[id]) : playerGames[id][i] = GameID

(* C20: between the calls on the manager, a player id is in the seat order *)
(* of a game the manager holds iff the game id is in the manager's list of *)
(* games of that player.                                                   *)
C20_RegistryConsistency ==
    Quiescent /\ GameID \in games =>
        \A id \in PlayerIDs : Seated(id) <=> Registered(id)


\* C21: empty tables are pruned.  Once no call is in progress and every player
\* who joined the game has left it with LeaveGame (the seated players are the
\* players who joined, and only a successful LeaveGame takes a game off a
\* player's list), the game is no longer in the registry.
C21_EmptyTablesPruned ==
    /\ Quiescent
    /\ \E id \in PlayerIDs : Seated(id)
    /\ \A id \in PlayerIDs : ~Registered(id)
    => GameID \notin games

\* this step is a Game.AddPlayer call that returned nil
AddedPlayer ==
    lastOp'.op = "AddPlayer" /\ lastOp'.err = ErrNone

\* C23: auto-start.  A game in WaitingForPlayers stays there as long as fewer
\* than MinPlayers players are seated; the AddPlayer call that brings the
\* seated count of a waiting game to MinPlayers leaves it in PreFlop with hand
\* number 1; and an AddPlayer call on a game in any other phase changes
\* neither the phase nor the hand number.
C23_AutoStart ==
    [][LET n == Cardinality(DOMAIN game.Players)
           n2 == Cardinality(DOMAIN game'.Players)
       IN  /\ game.Phase = WaitingForPlayers /\ n2 < game.MinPlayers
                => game'.Phase = WaitingForPlayers
           /\ game.Phase = WaitingForPlayers /\ AddedPlayer /\ n2 = game.MinPlayers
                => game'.Phase = PreFlop /\ game'.HandNumber = 1
                   /\ game.HandNumber = 0
           /\ game.Phase # WaitingForPlayers /\ lastOp'.op = "AddPlayer"
                => game'.Phase = game.Phase /\ game'.HandNumber = game.HandNumber
      ]_vars

\* the second AddPlayer has just returned: the first hand is dealt, the blinds
\* are posted and nobody has acted
C23_Witness ==
    /\ lastOp = Op("AddPlayer", ErrNone)
    /\ Len(game.PlayerOrder) = game.MinPlayers
    /\ game.Phase = PreFlop /\ game.HandNumber = 1 /\ game.Actions = 0
    /\ game.Pot = game.SmallBlind + game.BigBlind

\* the small blind and the big blind of the current hand
SB(g) == At(g.PlayerOrder, g.SmallBlindPos)
BB(g) == At(g.PlayerOrder, g.BigBlindPos)

\* the first hand of a heads-up table both of whose players are connected,
\* after n accepted actions
OpeningHand(n) ==
    /\ Len(game.PlayerOrder) = 2
    /\ game.HandNumber = 1
    /\ game.Actions = n
    /\ \A id \in DOMAIN game.Players : game.Players[id].Connected

\* C24: heads-up opening.  With blinds 50/100 and two players who joined with
\* 10000 chips each, the first hand starts in PreFlop with the big blind
\* having posted 100 and the small blind 50; after the small blind's call
\* (50 more) the phase is still PreFlop and the big blind is to act; after the
\* big blind's check the phase is Flop, the pot is 200 and both players'
\* current-street bets are 0.
C24_HeadsUpOpening ==
    /\ OpeningHand(0) =>
          /\ game.Phase = PreFlop
          /\ game.Players[BB(game)].CurrentBet = 100
          /\ game.Players[SB(game)].CurrentBet = 50
          /\ game.Players[BB(game)].ChipCount = 9900
          /\ game.Players[SB(game)].ChipCount = 9950
          /\ getCurrentPlayerID(game) = SB(game)
    /\ OpeningHand(1) /\ game.Players[SB(game)].LastAction.Action = Call =>
          /\ game.Phase = PreFlop
          /\ getCurrentPlayerID(game) = BB(game)
          /\ game.Players[SB(game)].CurrentBet = 100
          /\ game.Players[SB(game)].ChipCount = 9900
          /\ game.Pot = 200
    /\ /\ OpeningHand(2)
       /\ game.Players[SB(game)].LastAction.Action = Call
       /\ game.Players[BB(game)].LastAction.Action = Check
       => /\ game.Phase = Flop
          /\ game.Pot = 200
          /\ \A id \in DOMAIN game.Players : game.Players[id].CurrentBet = 0

\* the small blind has called and the big blind has checked
C24_Witness ==
    /\ OpeningHand(2)
    /\ game.Players[SB(game)].LastAction.Action = Call
    /\ game.Players[BB(game)].LastAction.Action = Check
    /\ lastOp = Op("ProcessAction", ErrNone)

\* the seat order lists each id once, has at most MaxPlayers entries and lists
\* exactly the ids of the players map
SeatsConsistent(g) ==
    /\ \A i, j \in 1..Len(g.PlayerOrder) :
          g.PlayerOrder[i] = g.PlayerOrder[j] => i = j
    /\ Len(g.PlayerOrder) <= g.MaxPlayers
    /\ {g.PlayerOrder[i] : i \in 1..Len(g.PlayerOrder)} = DOMAIN g.Players

\* the game has no free seat
Full(g) ==
    Cardinality(DOMAIN g.Players) >= g.MaxPlayers

\* C27 as stated: in every reachable state AddPlayer is rejected with GameFull
\* if MaxPlayers players are seated and with PlayerAlreadyInGame if the id is
\* seated, without changing the game, and the seat order is consistent.
C27_SeatsAsStated ==
    /\ SeatsConsistent(game)
    /\ \A id \in PlayerIDs :
          LET r == GameAddPlayer(game, id, BuyIns[id]) IN
          /\ Full(game) => r.err = ErrGameFull /\ r.g = game
          /\ id \in DOMAIN game.Players => r.err = ErrAlreadyInGame /\ r.g = game

\* C27, amended: in every reachable state AddPlayer is rejected with GameFull
\* if MaxPlayers players are seated, and with PlayerAlreadyInGame if the id is
\* seated and a seat is free, without changing the game in either case; any
\* other AddPlayer is accepted and appends the id to the seat order; and the
\* seat order is consistent.
C27_SeatCapacity ==
    /\ SeatsConsistent(game)
    /\ \A id \in PlayerIDs :
          LET r == GameAddPlayer(game, id, BuyIns[id]) IN
          /\ Full(game) => r.err = ErrGameFull /\ r.g = game
          /\ id \in DOMAIN game.Players /\ ~Full(game)
                => r.err = ErrAlreadyInGame /\ r.g = game
          /\ id \notin DOMAIN game.Players /\ ~Full(game)
                => r.err = ErrNone /\ r.g.PlayerOrder = Append(game.PlayerOrder, id)

\* AddPlayer has just been rejected for an id that is seated at a table with
\* a free seat
C27_Witness ==
    /\ lastOp = Op("AddPlayer", ErrAlreadyInGame)
    /\ ~Full(game)
    /\ game.PlayerOrder # <<>>

\* C28: GameOver is terminal.  No step taken in GameOver (AddPlayer,
\* RemovePlayer, ProcessAction or a timer firing) changes the phase, starts a
\* hand, or changes the pot, the chips or the bets of a seated player.
C28_GameOverTerminal ==
    [][game.Phase = GameOver =>
          /\ game'.Phase = GameOver
          /\ game'.HandNumber = game.HandNumber
          /\ game'.Pot = game.Pot
          /\ \A id \in DOMAIN game.Players :
                /\ id \in DOMAIN game'.Players
                /\ game'.Players[id].ChipCount = game.Players[id].ChipCount
                /\ game'.Players[id].CurrentBet = game.Players[id].CurrentBet
                /\ game'.Players[id].TotalBet = game.Players[id].TotalBet
      ]_vars

\* a callback scheduled before the game ended has fired in GameOver
C28_Witness ==
    /\ game.Phase = GameOver
    /\ lastOp = Op("NextHandTimer", ErrNone)

\* the cards of a sequence, and whether it holds each card at most once
CardSet(cards) ==
    {cards[i] : i \in 1..Len(cards)}

Distinct(cards) ==
    \A i, j \in 1..Len(cards) : cards[i] = cards[j] => i = j

FullDeck ==
    {NewCard(rank, suit) : rank \in DeckRanks, suit \in DeckSuits}

\* C29: deck integrity.  Right after NewDeck or Reset the deck holds every
\* (rank, suit) pair exactly once; a Shuffle keeps the cards of the deck, each
\* as often as before; and in every state reached by Shuffle, Deal,
\* DealMultiple and Reset the cards dealt since the last reset followed by
\* the cards left are every (rank, suit) pair exactly once.
C29_DeckIntegrity ==
    /\ [](/\ Distinct(dealt \o deckCards)
          /\ CardSet(dealt \o deckCards) = FullDeck
          /\ dealOut.op \in {"NewDeck", "Reset"} =>
                dealt = <<>> /\ Len(deckCards) = Cardinality(FullDeck))
    /\ [][dealOut'.op = "Shuffle" =>
             /\ Len(deckCards') = Len(deckCards)
             /\ CardSet(deckCards') = CardSet(deckCards)
             /\ Distinct(deckCards')]_vars

\* a deck shuffled into another order after some of its cards were dealt
C29_Witness ==
    /\ dealOut.op = "Shuffle"
    /\ dealt # <<>>
    /\ Len(deckCards) >= 2
    /\ \E i \in 1..(Len(deckCards) - 1) :
          deckCards[i].Suit > deckCards[i + 1].Suit

\* C30: all-or-nothing dealing.  Deal on an empty deck returns an error and
\* leaves the deck as it is; DealMultiple(n) on a deck with fewer than n cards
\* returns an error and leaves the deck as it is; a Deal that succeeds returns
\* the top card and leaves the rest; a DealMultiple(n) that succeeds returns
\* the top n cards in order and leaves the rest.
C30_AllOrNothing ==
    [][/\ dealOut'.op = "Deal" =>
             IF Len(deckCards) = 0
             THEN dealOut'.err # ErrNone /\ deckCards' = deckCards
             ELSE /\ dealOut'.err = ErrNone
                  /\ dealOut'.cards = <<Head(deckCards)>>
                  /\ deckCards' = Tail(deckCards)
       /\ dealOut'.op = "DealMultiple" =>
             /\ Len(deckCards) < dealOut'.count =>
                   dealOut'.err # ErrNone /\ deckCards' = deckCards
                   /\ dealOut'.cards = <<>>
             /\ dealOut'.err = ErrNone =>
                   /\ Len(dealOut'.cards) = dealOut'.count
                   /\ deckCards = dealOut'.cards \o deckCards'
             /\ dealOut'.count \in 0..Len(deckCards) => dealOut'.err = ErrNone
      ]_vars

\* DealMultiple has just been refused on a deck that still holds cards
C30_Witness ==
    /\ dealOut.op = "DealMultiple"
    /\ dealOut.err = ErrNotEnoughCards
    /\ deckCards # <<>>
    /\ dealt # <<>>

\* C22: hole-card privacy.  The snapshot GetGameState(viewer) returns holds
\* hole cards in the entry of the viewer only, where they are the viewer's
\* own; and two games that differ only in the hole cards of other players and
\* in the undealt deck give the viewer the same snapshot.
C22_HoleCardPrivacy ==
    snapshot # NoSnapshot =>
        /\ \A i \in 1..Len(snapshot.Players) :
              LET entry == snapshot.Players[i] IN
              IF entry.ID = viewer
              THEN entry.HoleCards = viewGame.Players[viewer].HoleCards
              ELSE entry.HoleCards = <<>>
        /\ snapshot = snapshotTwin

\* p1 has looked at a dealt hand in which p2 holds other cards in the twin game
C22_Witness ==
    /\ snapshot # NoSnapshot
    /\ viewer = "p1"
    /\ Len(viewGame.PlayerOrder) = 2
    /\ viewGame.Players["p1"].HoleCards # <<>>
    /\ viewGame.Players["p2"].HoleCards # viewTwin.Players["p2"].HoleCards
    /\ viewGame.Deck # viewTwin.Deck

\* the number of games the manager lists for a player
TablesOf(id) ==
    Len(playerGames[id])

\* this step is a call on the manager that changed neither its games nor its
\* lists of games
NothingChanged ==
    tables' = tables /\ playerGames' = playerGames

\* C25 as stated: a JoinGame by a player who is joined to MaxTablesPerUser
\* games fails with TooManyTables and changes nothing, and no player is ever
\* joined to more than MaxTablesPerUser games.
C25_TableLimitAsStated ==
    /\ [](\A id \in PlayerIDs : TablesOf(id) <= MaxTablesPerUser)
    /\ [][lastCall'.op = "JoinGame"
          /\ TablesOf(lastCall'.playerID) >= MaxTablesPerUser
          => lastCall'.err = ErrTooManyTables /\ NothingChanged]_vars

\* C25, amended: a JoinGame by a player who is joined to MaxTablesPerUser
\* games changes nothing and fails, with GameNotFound if the manager holds no
\* game of that id and with TooManyTables otherwise; no player is ever joined
\* to more than MaxTablesPerUser games, and no game is twice in a player's list.
C25_TableLimit ==
    /\ [](\A id \in PlayerIDs :
            /\ TablesOf(id) <= MaxTablesPerUser
            /\ Distinct(playerGames[id]))
    /\ [][lastCall'.op = "JoinGame"
          /\ TablesOf(lastCall'.playerID) >= MaxTablesPerUser
          => /\ NothingChanged
             /\ lastCall'.err = IF lastCall'.gameID \in DOMAIN tables
                                THEN ErrTooManyTables ELSE ErrGameNotFound]_vars

\* a player joined to MaxTablesPerUser games has just been refused at one more
C25_Witness ==
    /\ lastCall.op = "JoinGame" /\ lastCall.err = ErrTooManyTables
    /\ TablesOf(lastCall.playerID) = MaxTablesPerUser
    /\ Cardinality(DOMAIN tables) > MaxTablesPerUser

\* C26: buy-in bounds.  A JoinGame on a game the manager holds, by a player
\* below the table limit, fails with InvalidBuyIn exactly when the buy-in is
\* outside the bounds of the config CreateGame built for that game, and then
\* changes nothing.
C26_BuyInBounds ==
    [][/\ lastCall'.op = "JoinGame"
       /\ lastCall'.gameID \in DOMAIN tables
       /\ TablesOf(lastCall'.playerID) < MaxTablesPerUser
       => LET config == configured[lastCall'.gameID]
              outside == \/ lastCall'.buyIn < config.MinBuyIn
                         \/ lastCall'.buyIn > config.MaxBuyIn
          IN  /\ lastCall'.err = ErrInvalidBuyIn <=> outside
              /\ outside => NothingChanged
      ]_vars

\* the ranks of a set of cards
RanksOf(cards) ==
    {c.Rank : c \in cards}

\* five cards of the ranks A-2-3-4-5
IsWheel(cards) ==
    RanksOf(cards) = {Ace, Two, Three, Four, Five}

\* five cards of five consecutive ranks, the lowest of them low
IsRun(cards, low) ==
    RanksOf(cards) = low..(low + 4)

OneSuit(cards) ==
    Cardinality({c.Suit : c \in cards}) = 1

\* the evaluation the claim gives a wheel: its category, and Five as high card
WheelAsStated(cards, hand) ==
    /\ hand.Rank = IF OneSuit(cards) THEN StraightFlush ELSE Straight
    /\ hand.Value = hand.Rank * 100000000 + Five
    /\ ~OneSuit(cards) => hand.Kickers = <<Five>>

\* C31: wheel straight.  A hand of the ranks A-2-3-4-5 evaluates as a Straight,
\* or as a StraightFlush (never a RoyalFlush) if it is of one suit, with Five
\* as its high card; its value is lower than the value of every six-high or
\* higher straight of the same category, to which CompareHands prefers the
\* other hand.
C31_WheelStraight ==
    /\ h1 # NoHand /\ IsWheel(c1) => WheelAsStated(c1, h1)
    /\ h2 # NoHand /\ IsWheel(c2) => WheelAsStated(c2, h2)
    /\ \A low \in Two..Ten :
          /\ h1 # NoHand /\ h2 # NoHand
          /\ IsWheel(c1) /\ IsRun(c2, low) /\ OneSuit(c1) = OneSuit(c2)
          => /\ h2.Rank = h1.Rank
             /\ h1.Value < h2.Value
             /\ cmp.done => cmp.result = -1

\* a wheel of two suits and a six-high straight of two suits have been compared
C31_Witness ==
    /\ cmp.done /\ IsWheel(c1) /\ ~OneSuit(c1)
    /\ IsRun(c2, Two) /\ ~OneSuit(c2)
    /\ h1.Rank = Straight /\ h2.Rank = Straight

\* the sets of five positions of a sequence of seven
FivePositions ==
    {ps \in SUBSET (1..7) : Cardinality(ps) = 5}

\* the position sets ps and qs differ, and ps comes first when the
\* combinations are enumerated position by position
EnumeratedBefore(ps, qs) ==
    LET diff == (ps \ qs) \cup (qs \ ps) IN
    diff # {} /\ (CHOOSE i \in diff : \A j \in diff : i <= j) \in ps

\* C32: best of seven.  GetBestHand of seven distinct cards returns a hand of
\* five of them whose value is at least the value of each of the 21 hands of
\* five of the seven cards; of the hands with that value it returns the first
\* in the order of enumeration.
C32_BestOfSeven ==
    bestHand # NoHand =>
       LET at(ps) == {seven[i] : i \in ps}
           value == [ps \in FivePositions |-> NewHand(at(ps)).Value]
           returned == {bestHand.Cards[i] : i \in 1..Len(bestHand.Cards)}
       IN  /\ Cardinality(FivePositions) = 21
           /\ Len(bestHand.Cards) = 5
           /\ \A ps \in FivePositions : value[ps] <= bestHand.Value
           /\ \E ps \in FivePositions :
                 /\ returned = at(ps)
                 /\ bestHand = NewHand(at(ps))
                 /\ \A qs \in FivePositions :
                       value[qs] = value[ps] /\ qs # ps => EnumeratedBefore(ps, qs)

\* GetBestHand has returned a hand whose value a hand of five other cards of
\* the seven has too
C32_Witness ==
    /\ bestHand # NoHand
    /\ \E ps \in FivePositions :
          /\ {seven[i] : i \in ps} # {bestHand.Cards[i] : i \in 1..Len(bestHand.Cards)}
          /\ NewHand({seven[i] : i \in ps}).Value = bestHand.Value

\* C33: Player.Bet is atomic and never overdraws.  Bet(amount) with amount
\* greater than the chips returns "insufficient chips" and changes nothing;
\* any other Bet returns nil, takes amount from the chips, adds it to the
\* street bet and to the hand bet, and sets the all-in flag exactly when the
\* chips reach 0; the chips are never negative and the street bet never
\* exceeds the hand bet.
C33_BetAtomic ==
    /\ [](bettor.ChipCount >= 0 /\ bettor.CurrentBet <= bettor.TotalBet)
    /\ [][betOut'.op = "Bet" =>
            LET amount == betOut'.amount IN
            IF amount > bettor.ChipCount
            THEN betOut'.err = ErrInsufficientChips /\ bettor' = bettor
            ELSE /\ betOut'.err = ErrNone
                 /\ bettor' = [bettor EXCEPT
                                 !.ChipCount = @ - amount,
                                 !.CurrentBet = @ + amount,
                                 !.TotalBet = @ + amount,
                                 !.IsAllIn = @ \/ bettor.ChipCount = amount]
                 /\ ~bettor.IsAllIn => (bettor'.IsAllIn <=> bettor'.ChipCount = 0)
         ]_vars

\* a Bet of more than the chips left has been refused after earlier bets
C33_Witness ==
    /\ betOut.op = "Bet" /\ betOut.err = ErrInsufficientChips
    /\ bettor.ChipCount > 0 /\ betOut.amount > bettor.ChipCount
    /\ bettor.TotalBet > bettor.CurrentBet /\ bettor.CurrentBet > 0

\* the street that follows PreFlop, Flop or Turn
NextStreet(phase) ==
    CASE phase = PreFlop -> Flop
      [] phase = Flop -> Turn
      [] phase = Turn -> River
      [] OTHER -> ""

\* C34: street reset.  When an accepted action completes the betting round of
\* PreFlop, Flop or Turn and the game goes to the next street, every player's
\* street bet and the street-high bet are 0 afterwards, while the hand bet,
\* the chips and the folded and all-in flags of every player and the pot are
\* those the wager of the action left: nothing but the wager has moved chips.
C34_StreetReset ==
    \A id \in DOMAIN game.Players, action \in PlayerActions :
       \A amount \in Amounts(action) :
          LET r == processAction(game, id, action, amount, AnyHandValues)
              w == AfterWager(game, id, action, amount)
          IN  /\ game.Phase \in {PreFlop, Flop, Turn}
              /\ r.err = ErrNone
              /\ r.g.Phase = NextStreet(game.Phase)
              => /\ r.g.LastRaise = 0
                 /\ r.g.Pot = w.Pot
                 /\ r.g.Pot - game.Pot
                       = game.Players[id].ChipCount - r.g.Players[id].ChipCount
                 /\ DOMAIN r.g.Players = DOMAIN game.Players
                 /\ \A q \in DOMAIN game.Players :
                       LET after == r.g.Players[q]
                           before == IF q = id THEN w.Players[q] ELSE game.Players[q]
                       IN  /\ after.CurrentBet = 0
                           /\ after.TotalBet = before.TotalBet
                           /\ after.ChipCount = before.ChipCount
                           /\ after.HasFolded = before.HasFolded
                           /\ after.IsAllIn = before.IsAllIn
                           /\ q = id => after.TotalBet - game.Players[q].TotalBet
                                           = r.g.Pot - game.Pot

\* an accepted action has just taken the hand from PreFlop to the Flop with
\* chips in the pot
C34_Witness ==
    /\ lastOp = Op("ProcessAction", ErrNone)
    /\ game.Phase = Flop /\ acted = {}
    /\ game.LastRaise = 0 /\ game.Pot > game.SmallBlind + game.BigBlind
    /\ \A q \in DOMAIN game.Players :
          game.Players[q].CurrentBet = 0 /\ game.Players[q].TotalBet > 0

\* C35: the minimum raise resets per street.  Whenever a step takes the game
\* into a street (PreFlop at the start of a hand; Flop, Turn or River from the
\* street before), the minimum raise increment is the big blind afterwards.
C35_MinRaiseResets ==
    [][/\ game'.Phase \in Streets
       /\ game'.Phase # game.Phase \/ game'.HandNumber # game.HandNumber
       => game'.MinRaise = game'.BigBlind]_vars

\* the player to act of g can act, and nobody seated from seat start up to
\* him, in cyclic seat order, can
FirstToActFrom(g, start) ==
    LET n == Len(g.PlayerOrder)
        d == (g.CurrentPlayer - start + n) % n
    IN  /\ CanAct(g.Players[At(g.PlayerOrder, g.CurrentPlayer)])
        /\ \A j \in 0..(d - 1) :
              ~CanAct(g.Players[At(g.PlayerOrder, (start + j) % n)])

SomeoneCanAct(g) ==
    \E i \in 1..Len(g.PlayerOrder) : CanAct(g.Players[g.PlayerOrder[i]])

\* C36: turn assignment.  Whenever a step assigns the turn and some seated
\* player can act, the turn is with the first player who can act in cyclic
\* seat order from (a) the seat after the big blind when the step starts a
\* hand, (b) the seat after the actor when the step records an action in a
\* street and the street goes on, (c) the seat after the dealer when the step
\* opens Flop, Turn or River; players who have folded, are all-in or are
\* disconnected are passed over.
C36_TurnAssignment ==
    [][LET n == Len(game'.PlayerOrder) IN
       SomeoneCanAct(game') =>
          /\ game'.HandNumber # game.HandNumber
             => FirstToActFrom(game', (game'.BigBlindPos + 1) % n)
          /\ /\ game'.Actions = game.Actions + 1
             /\ game.Phase \in Streets
             /\ game'.Phase = game.Phase
             => FirstToActFrom(game', (game.CurrentPlayer + 1) % n)
          /\ /\ game'.Actions = game.Actions + 1
             /\ game'.Phase = NextStreet(game.Phase)
             => FirstToActFrom(game', (game'.DealerPos + 1) % n)]_vars

\* a street of a table of three has opened with the turn not at the seat
\* after the dealer, whose player cannot act, but at a later seat
C36_Witness ==
    /\ Len(game.PlayerOrder) = 3
    /\ game.Phase \in {Flop, Turn, River}
    /\ acted = {}
    /\ game.CurrentPlayer # (game.DealerPos + 1) % 3
    /\ SomeoneCanAct(game)
    /\ FirstToActFrom(game, (game.DealerPos + 1) % 3)

\* the chips the player in seat pos of g had before posting
StackBefore(g, pos) ==
    LET p == g.Players[At(g.PlayerOrder, pos)] IN p.ChipCount + p.TotalBet

\* the player in seat pos of g has posted the blind, or his whole stack if
\* that is less, and is all-in when the stack did not exceed the blind
Posted(g, pos, blind) ==
    LET p == g.Players[At(g.PlayerOrder, pos)] IN
    /\ p.TotalBet = min(blind, StackBefore(g, pos))
    /\ p.CurrentBet = p.TotalBet
    /\ StackBefore(g, pos) <= blind => p.IsAllIn

\* seat pos of g is the first from seat start on, in cyclic order, that holds
\* an active player
NextActiveSeat(g, start, pos) ==
    LET n == Len(g.PlayerOrder)
        d == (pos - start + n) % n
    IN  /\ g.Players[At(g.PlayerOrder, pos)].IsActive
        /\ \A j \in 0..(d - 1) :
              ~g.Players[At(g.PlayerOrder, (start + j) % n)].IsActive

\* C37: blinds and button at hand start.  After a step that starts a hand the
\* dealer is the first seat after the previous dealer seat that holds an
\* active player; with two seated players the dealer seat is the small blind
\* and the other the big blind, with more the small blind is the seat after
\* the dealer and the big blind the seat after that; the two seats have posted
\* min(SmallBlind, stack) and min(BigBlind, stack), all-in if the stack does
\* not exceed the blind; the pot is the sum of the two posts; street-high and
\* minimum raise are the big blind.
C37_BlindsAndButton ==
    [][game'.HandNumber # game.HandNumber =>
          LET g == game'
              n == Len(g.PlayerOrder)
          IN  /\ NextActiveSeat(g, (game.DealerPos + 1) % n, g.DealerPos)
              /\ IF n = 2
                 THEN /\ g.SmallBlindPos = g.DealerPos
                      /\ g.BigBlindPos = (g.DealerPos + 1) % n
                 ELSE /\ g.SmallBlindPos = (g.DealerPos + 1) % n
                      /\ g.BigBlindPos = (g.DealerPos + 2) % n
              /\ Posted(g, g.SmallBlindPos, g.SmallBlind)
              /\ Posted(g, g.BigBlindPos, g.BigBlind)
              /\ g.Pot = g.Players[At(g.PlayerOrder, g.SmallBlindPos)].TotalBet
                         + g.Players[At(g.PlayerOrder, g.BigBlindPos)].TotalBet
              /\ g.LastRaise = g.BigBlind
              /\ g.MinRaise = g.BigBlind]_vars

\* the players of the dealing table who had chips and were connected when
\* the hand started
DealtIn ==
    {id \in DOMAIN dealGame.Players :
        dealGame.Players[id].ChipCount > 0 /\ dealGame.Players[id].Connected}

\* the hole cards, the community cards and the undealt cards of the hand are
\* pairwise distinct
AllCardsDistinct ==
    /\ Distinct(dealGame.Deck)
    /\ Distinct(dealGame.CommunityCards)
    /\ CardSet(dealGame.Deck) \cap CardSet(dealGame.CommunityCards) = {}
    /\ \A id \in DOMAIN dealGame.Players :
          LET hole == dealGame.Players[id].HoleCards IN
          /\ Distinct(hole)
          /\ CardSet(hole) \cap CardSet(dealGame.Deck) = {}
          /\ CardSet(hole) \cap CardSet(dealGame.CommunityCards) = {}
          /\ \A other \in DOMAIN dealGame.Players \ {id} :
                CardSet(hole) \cap CardSet(dealGame.Players[other].HoleCards) = {}

\* C38: dealing never runs short.  In a hand of a table of at most 10 seated
\* players no Deal call has failed; every player who had chips and was
\* connected when the hand started holds exactly 2 hole cards; there are 0
\* community cards in PreFlop, 3 in Flop, 4 in Turn and 5 in River; and the
\* hole cards, the community cards and the undealt cards are pairwise
\* distinct.
C38_DealingNeverShort ==
    dealGame.Phase \in Streets =>
       /\ Len(dealGame.PlayerOrder) <= 10
       /\ dealFailed = 0
       /\ \A id \in DealtIn : Len(dealGame.Players[id].HoleCards) = 2
       /\ Len(dealGame.CommunityCards) =
             (CASE dealGame.Phase = PreFlop -> 0
                [] dealGame.Phase = Flop -> 3
                [] dealGame.Phase = Turn -> 4
                [] dealGame.Phase = River -> 5)
       /\ AllCardsDistinct

\* ten players are dealt in and the river is out: 28 cards have left the
\* deck of 52
C38_Witness ==
    /\ dealGame.Phase = River
    /\ Cardinality(DealtIn) = 10
    /\ Len(dealGame.Deck) = DeckSize - 28
    /\ dealFailed = 0

\* C39: no betting between hands.  A ProcessAction call made while the phase
\* is not PreFlop, Flop, Turn or River (that is in WaitingForPlayers, in
\* Showdown while the start of the next hand is pending, and in GameOver)
\* returns an error and changes nothing, so the pot grows in a running hand
\* only.
C39_NoBettingBetweenHands ==
    [][/\ lastOp'.op = "ProcessAction" => (game.Phase \notin Streets =>
                                             lastOp'.err # ErrNone /\ game' = game)
       /\ game'.Pot > game.Pot => game'.Phase \in Streets]_vars

\* the seated players whose chips this step has increased
Awarded ==
    {q \in DOMAIN game.Players \cap DOMAIN game'.Players :
        game'.Players[q].ChipCount > game.Players[q].ChipCount}

\* C40: the pot always goes to a dealt-in player.  No call ends in a division
\* by zero winners; a step that settles a hand with chips in the pot awards
\* them to at least one player; and every player a step awards chips to holds
\* the two hole cards dealt to him in that hand.
C40_PotToDealtIn ==
    [][/\ lastOp'.err # ErrPanic
       /\ SettledHand /\ game.Pot > 0 => Awarded # {}
       /\ \A q \in Awarded : game.Players[q].HoleCards = 2]_vars
============================================================================
